---- MODULE Spec2Model ----
(***************************************************************************)
(* Model of the TI serial-bootloader host driver (ti-sbl) and of the       *)
(* prog-cli flash subcommand.                                              *)
(*                                                                         *)
(* A u32 of the program is a pair <<hi, lo>> of 16-bit halves; a sum that  *)
(* has not been reduced yet may carry hi >= 2^16, which is how an overflow *)
(* is seen before the build either panics on it or wraps it.               *)
(***************************************************************************)
EXTENDS Integers, Sequences, FiniteSets, TLC

\* ------------------------------------------------------------ numbers

Half == 256 * 256

Norm(h, l) == <<h + (l \div Half), l % Half>>

\* a small natural (below 2^31) as a number
N(n) == Norm(0, n)

Add(a, b) == Norm(a[1] + b[1], a[2] + b[2])

Lt(a, b) == a[1] < b[1] \/ (a[1] = b[1] /\ a[2] < b[2])

Ge(a, b) == ~Lt(a, b)

Gt(a, b) == Lt(b, a)

\* a - b for a >= b
Sub(a, b) ==
    IF a[2] >= b[2] THEN <<a[1] - b[1], a[2] - b[2]>>
                    ELSE <<a[1] - b[1] - 1, a[2] + Half - b[2]>>

Fits32(a) == a[1] < Half

Wrap32(a) == <<a[1] % Half, a[2]>>

\* quotient and remainder of a number by a small positive divisor (s <= 2^14)
DivS(a, s) == <<a[1] \div s, (((a[1] % s) * Half) + a[2]) \div s>>

ModS(a, s) == (((a[1] % s) * Half) + a[2]) % s

\* u32 + u32 and u32 - u32 as the machine computes them: the wrapped value, and
\* whether the exact result left the u32 range (a panic when the build checks
\* overflow, the wrapped value otherwise)
u32_add(a, b) == [val |-> Wrap32(Add(a, b)), ovf |-> ~Fits32(Add(a, b))]

u32_sub(a, b) ==
    IF Ge(a, b) THEN [val |-> Sub(a, b), ovf |-> FALSE]
                ELSE [val |-> Sub(Add(a, <<Half, 0>>), b), ovf |-> TRUE]

\* usize - usize followed by `as u32`: the low 32 bits of the difference
usize_sub_as_u32(a, b) ==
    IF a >= b THEN [val |-> N(a - b), ovf |-> FALSE]
              ELSE [val |-> Sub(<<Half, 0>>, N(b - a)), ovf |-> TRUE]

to_be_bytes(a) == <<a[1] \div 256, a[1] % 256, a[2] \div 256, a[2] % 256>>

from_be_bytes(b) == <<(b[1] * 256) + b[2], (b[3] * 256) + b[4]>>

from_le_bytes(b) == <<(b[4] * 256) + b[3], (b[2] * 256) + b[1]>>

\* ------------------------------------------------------------ constants

CMD_PING == 32
CMD_DOWNLOAD == 33
CMD_GET_STATUS == 35
CMD_SEND_DATA == 36
CC2538_CMD_ERASE == 38
CC26X0_CMD_SECTOR_ERASE == 38
CMD_GET_CHIP_ID == 40
CC2538_CMD_SET_XOSC == 41
CMD_MEMORY_READ == 42
ACK == 204
NACK == 51
MAX_BYTES_PER_TRANSFER == 252
COMMAND_RET_SUCCESS == 64
COMMAND_RET_UNKNOWN_CMD == 65
COMMAND_RET_INVALID_CMD == 66
COMMAND_RET_INVALID_ADR == 67
COMMAND_RET_FLASH_FAIL == 68
CCFG_SIZE == 88
HDR_LEN == 3
REG32_SIZE == 4

\* FCFG1.MAC_15_4_0 on CC13xx/CC26xx (0x000002F0)
CC26XX_FCFG1_O_MAC_15_4_0 == <<0, 752>>

\* FLASH.FLASH_SIZE on CC13xx/CC26xx (0x4003002C) and FLASH_CTRL.DIECFG0 on
\* CC2538 (0x400D3014)
CC26XX_FLASH_O_FLASH_SIZE == <<16387, 44>>

CC2538_FLASH_CTRL_O_DIECFG0 == <<16397, 12308>>

\* ------------------------------------------------------------ family

Family == {"CC2538", "CC26X0", "CC26X2"}

supports_erase(f) == f = "CC2538"

supports_sector_erase(f) == f \in {"CC26X0", "CC26X2"}

supports_set_xosc(f) == f = "CC2538"

sector_size(f) ==
    CASE f = "CC2538" -> 2048
      [] f = "CC26X0" -> 4092
      [] f = "CC26X2" -> 8192

flash_base(f) ==
    CASE f = "CC2538" -> <<32, 0>>
      [] f = "CC26X0" -> <<0, 0>>
      [] f = "CC26X2" -> <<0, 0>>

\* a slip: the flash base is not taken off
address_to_page_nobase(f, a) == [val |-> DivS(a, sector_size(f)), ovf |-> FALSE]

\* (address - flash_base) / sector_size in u32 arithmetic
address_to_page(f, a) ==
    [val |-> DivS(u32_sub(a, flash_base(f)).val, sector_size(f)),
     ovf |-> u32_sub(a, flash_base(f)).ovf]

\* ------------------------------------------------------------ framer

\* The 8-bit wrapping sum of data[lo..hi]. The code adds the bytes one by one
\* with overflowing_add; wrapping addition is associative, and the sum is taken
\* here in halves, each partial sum wrapped to 8 bits as the code wraps it.
RECURSIVE wrapping_sum(_, _, _)
wrapping_sum(data, lo, hi) ==
    IF lo > hi THEN 0
    ELSE IF lo = hi THEN data[lo] % 256
    ELSE (wrapping_sum(data, lo, (lo + hi) \div 2)
            + wrapping_sum(data, ((lo + hi) \div 2) + 1, hi)) % 256

\* a slip: the command byte is left out of the sum
command_checksum_data_only(cmd, data) == wrapping_sum(data, 1, Len(data))

command_checksum(cmd, data) == (cmd + wrapping_sum(data, 1, Len(data))) % 256

\* One entry of the transport's history: bytes written, a flush, the outcome of
\* an ACK read ("ack", "nack", "err"), or a response read.
Ev(kind, bytes, res) == [kind |-> kind, bytes |-> bytes, res |-> res]

\* the largest value of a u8
U8_MAX == 255

\* write_cmd's programming error: a packet longer than a u8 can say
write_cmd_panics(data) ==
    IF HDR_LEN + Len(data) > U8_MAX THEN "packet too big" ELSE ""

\* a slip: the length byte does not count the header
write_cmd_short_length(w, cmd, data) ==
    w \o << Ev("write", <<Len(data), command_checksum(cmd, data), cmd>> \o data, "ok"),
            Ev("flush", <<>>, "ok") >>

write_cmd(w, cmd, data) ==
    w \o << Ev("write", <<HDR_LEN + Len(data), command_checksum(cmd, data), cmd>> \o data, "ok"),
            Ev("flush", <<>>, "ok") >>

read_ack(w, r) == w \o << Ev("read_ack", <<>>, r) >>

write_ack(w, ack) ==
    w \o << Ev("write", <<0, IF ack THEN ACK ELSE NACK>>, "ok"),
            Ev("flush", <<>>, "ok") >>

\* read_response: HDR_LEN
RESP_HDR_LEN == 2

\* response.len().cmp(&payload_len) with payload_len = hdr[0] as usize - HDR_LEN:
\* a length byte below 2 wraps to a usize above every buffer length when the
\* build does not check overflow ("Overflow" stands for the panic when it does)
response_len_cmp(n, hdr, checks) ==
    IF hdr[1] < RESP_HDR_LEN
    THEN (IF checks THEN "Overflow" ELSE "Less")
    ELSE IF n > hdr[1] - RESP_HDR_LEN THEN "Greater"
    ELSE IF n < hdr[1] - RESP_HDR_LEN THEN "Less"
    ELSE "Equal"

\* a slip: a buffer longer than the payload is accepted
response_len_cmp_at_least(n, hdr, checks) ==
    IF hdr[1] < RESP_HDR_LEN
    THEN (IF checks THEN "Overflow" ELSE "Less")
    ELSE IF n < hdr[1] - RESP_HDR_LEN THEN "Less"
    ELSE "Equal"

\* read_response into a buffer of n bytes. rep.hdr is the header the device
\* sends (<<>>: the read of it fails), rep.data the payload bytes that follow,
\* rep.ok whether the read of the payload succeeds. The result is "ok" with the
\* buffer's bytes, "io" with the message of the failure, or "panic".
read_response(w, n, rep, checks) ==
    LET w1 == w \o << Ev("read_header", rep.hdr,
                         IF Len(rep.hdr) = RESP_HDR_LEN THEN "ok" ELSE "err") >>
        full == rep.ok /\ Len(rep.data) >= n
        w2 == w1 \o << Ev("read_response", IF full THEN SubSeq(rep.data, 1, n) ELSE <<>>,
                          IF full THEN "ok" ELSE "err") >>
    IN  IF Len(rep.hdr) # RESP_HDR_LEN
        THEN [wire |-> w1, res |-> "io", msg |-> "io", data |-> <<>>]
        ELSE CASE response_len_cmp(n, rep.hdr, checks) = "Overflow" ->
                    [wire |-> w1, res |-> "panic",
                     msg |-> "attempt to subtract with overflow", data |-> <<>>]
               [] response_len_cmp(n, rep.hdr, checks) = "Greater" ->
                    [wire |-> w1, res |-> "io",
                     msg |-> "received response is too small", data |-> <<>>]
               [] response_len_cmp(n, rep.hdr, checks) = "Less" ->
                    [wire |-> w1, res |-> "io",
                     msg |-> "received response is too big", data |-> <<>>]
               [] OTHER ->
                    IF full
                    THEN [wire |-> w2, res |-> "ok", msg |-> "", data |-> SubSeq(rep.data, 1, n)]
                    ELSE [wire |-> w2, res |-> "io", msg |-> "io", data |-> <<>>]

\* ------------------------------------------------------------ device

AckReplies == {"ack", "nack", "err"}

StatusBytes == {COMMAND_RET_SUCCESS, COMMAND_RET_INVALID_ADR, COMMAND_RET_FLASH_FAIL, 0}

\* what the device answers to one command: the ACK read's outcome and, for
\* GetStatus, the status byte of the response (-1: the response read fails)
Replies ==
    {[ack |-> "ack", status |-> st] : st \in StatusBytes \cup {-1}}
        \cup {[ack |-> a, status |-> COMMAND_RET_SUCCESS] : a \in AckReplies}

\* a slip: the size is sent before the address
download_swapped(w, program_address, program_size, rep) ==
    LET w1 == read_ack(write_cmd(w, CMD_DOWNLOAD,
                                 to_be_bytes(program_size) \o to_be_bytes(program_address)),
                       rep.ack)
    IN  [wire |-> w1,
         res |-> CASE rep.ack = "err" -> "io"
                   [] rep.ack = "nack" -> "nack"
                   [] OTHER -> "ok"]

\* Each command gives the transport history after it and its result: "ok",
\* "nack" (the command's own not-acknowledged failure) or "io" (transport).
download(w, program_address, program_size, rep) ==
    LET w1 == read_ack(write_cmd(w, CMD_DOWNLOAD,
                                 to_be_bytes(program_address) \o to_be_bytes(program_size)),
                       rep.ack)
    IN  [wire |-> w1,
         res |-> CASE rep.ack = "err" -> "io"
                   [] rep.ack = "nack" -> "nack"
                   [] OTHER -> "ok"]

\* the response a device sends for a status byte: the header of a one-byte
\* payload and the byte (rep.status < 0: the read of the header fails)
StatusResponse(rep) ==
    [hdr |-> IF rep.status < 0 THEN <<>> ELSE <<RESP_HDR_LEN + 1, rep.status>>,
     data |-> IF rep.status < 0 THEN <<>> ELSE <<rep.status>>,
     ok |-> TRUE]

\* a slip: the host ACK is written before the response is read
get_status_ack_first(w, rep) ==
    LET w1 == read_ack(write_cmd(w, CMD_GET_STATUS, <<>>), rep.ack)
        r == read_response(write_ack(w1, TRUE), 1, StatusResponse(rep), FALSE)
    IN  CASE rep.ack = "err" -> [wire |-> w1, res |-> "io", ret |-> 0]
          [] rep.ack = "nack" -> [wire |-> w1, res |-> "nack", ret |-> 0]
          [] r.res # "ok" -> [wire |-> r.wire, res |-> r.res, ret |-> 0]
          [] OTHER -> [wire |-> r.wire, res |-> "ok", ret |-> r.data[1]]

get_status(w, rep) ==
    LET w1 == read_ack(write_cmd(w, CMD_GET_STATUS, <<>>), rep.ack)
        \* a status response says 3 in its length byte: nothing to overflow
        r == read_response(w1, 1, StatusResponse(rep), FALSE)
    IN  CASE rep.ack = "err" -> [wire |-> w1, res |-> "io", ret |-> 0]
          [] rep.ack = "nack" -> [wire |-> w1, res |-> "nack", ret |-> 0]
          [] r.res # "ok" -> [wire |-> r.wire, res |-> r.res, ret |-> 0]
          [] OTHER -> [wire |-> write_ack(r.wire, TRUE), res |-> "ok", ret |-> r.data[1]]

\* the caller has checked Len(data) <= MAX_BYTES_PER_TRANSFER (the assert)
send_data(w, data, rep) ==
    LET w1 == read_ack(write_cmd(w, CMD_SEND_DATA, data), rep.ack)
    IN  [wire |-> w1,
         res |-> IF rep.ack = "err" THEN "io" ELSE "ok",
         ack |-> rep.ack = "ack"]

\* a slip: the byte count is sent before the address
erase_count_first(w, address, byte_count, rep) ==
    LET w1 == read_ack(write_cmd(w, CC2538_CMD_ERASE,
                                 to_be_bytes(byte_count) \o to_be_bytes(address)),
                       rep.ack)
    IN  [wire |-> w1,
         res |-> CASE rep.ack = "err" -> "io"
                   [] rep.ack = "nack" -> "nack"
                   [] OTHER -> "ok"]

erase(w, address, byte_count, rep) ==
    LET w1 == read_ack(write_cmd(w, CC2538_CMD_ERASE,
                                 to_be_bytes(address) \o to_be_bytes(byte_count)),
                       rep.ack)
    IN  [wire |-> w1,
         res |-> CASE rep.ack = "err" -> "io"
                   [] rep.ack = "nack" -> "nack"
                   [] OTHER -> "ok"]

\* a slip: the ACK of the command is not waited for
sector_erase_no_wait(w, address, rep) ==
    [wire |-> write_cmd(w, CC26X0_CMD_SECTOR_ERASE, to_be_bytes(address)), res |-> "ok"]

sector_erase(w, address, rep) ==
    LET w1 == read_ack(write_cmd(w, CC26X0_CMD_SECTOR_ERASE, to_be_bytes(address)),
                       rep.ack)
    IN  [wire |-> w1,
         res |-> CASE rep.ack = "err" -> "io"
                   [] rep.ack = "nack" -> "nack"
                   [] OTHER -> "ok"]

status_code_to_str(ret) ==
    CASE ret = COMMAND_RET_SUCCESS -> "COMMAND_RET_SUCCESS"
      [] ret = COMMAND_RET_UNKNOWN_CMD -> "COMMAND_RET_UNKNOWN_CMD"
      [] ret = COMMAND_RET_INVALID_CMD -> "COMMAND_RET_INVALID_CMD"
      [] ret = COMMAND_RET_INVALID_ADR -> "COMMAND_RET_INVALID_ADR"
      [] ret = COMMAND_RET_FLASH_FAIL -> "COMMAND_RET_FLASH_FAIL"
      [] OTHER -> "Unknown"

\* ------------------------------------------------------------ device: the other commands

\* The programming errors of a command: the message of the panic that stops
\* it before it touches the port, "" when it goes on.
erase_panics(f) ==
    IF ~supports_erase(f) THEN "COMMAND_ERASE is not supported" ELSE ""

\* a slip: the address is not checked
sector_erase_panics_family_only(f, address) ==
    IF ~supports_sector_erase(f) THEN "COMMAND_SECTOR_ERASE is not supported" ELSE ""

sector_erase_panics(f, address) ==
    IF ~supports_sector_erase(f) THEN "COMMAND_SECTOR_ERASE is not supported"
    ELSE IF ModS(address, sector_size(f)) # 0 THEN "invalid sector address"
    ELSE ""

set_xosc_panics(f) ==
    IF ~supports_set_xosc(f) THEN "XOSC switch is not supported" ELSE ""

\* a slip: the family is not checked
memory_read_32_panics_any_family(f, address, len) ==
    IF len > 63 * 4 THEN "only a maximum of 63 accesses can be done on word mode"
    ELSE IF len % 4 # 0 THEN "number of bytes is not divisible from 4"
    ELSE IF address[2] % 4 # 0 THEN "memory address must be 32-bits aligned"
    ELSE ""

memory_read_32_panics(f, address, len) ==
    IF f = "CC2538" THEN "32-bit memory accesses are only allowed on CC26xx"
    ELSE IF len > 63 * 4 THEN "only a maximum of 63 accesses can be done on word mode"
    ELSE IF len % 4 # 0 THEN "number of bytes is not divisible from 4"
    ELSE IF address[2] % 4 # 0 THEN "memory address must be 32-bits aligned"
    ELSE ""

send_data_panics(len) ==
    IF len > MAX_BYTES_PER_TRANSFER
    THEN "assertion failed: data.as_ref().len() <= constants::MAX_BYTES_PER_TRANSFER"
    ELSE ""

\* the payloads a device may answer a register or chip-id read with (one of
\* them of the wrong length)
RegValues ==
    { <<20, 0, 0, 0>>, <<0, 0, 0, 0>>, <<64, 1, 0, 0>>, <<255, 255, 255, 255>>, <<1, 2>>,
      <<20, 1, 2, 3>>, <<0, 18, 75, 0, 1, 2, 3, 4>> }

\* the header a device sends before a payload: its length byte counts the
\* header, its second byte is the checksum of the payload
header_of(data) == <<RESP_HDR_LEN + Len(data), command_checksum(0, data)>>

\* what the device answers to a command with a response: the ACK read's
\* outcome, the response header (<<>>: the read of it fails), the payload, and
\* whether the read of the payload succeeds. Among them: a payload of the wrong
\* length, a payload read that fails, length bytes of 0 and 1, and a header
\* that says 4 bytes before 8.
RegReplies ==
    {[ack |-> "ack", hdr |-> header_of(d), ok |-> TRUE, data |-> d] : d \in RegValues}
        \cup {[ack |-> "ack", hdr |-> <<>>, ok |-> FALSE, data |-> <<>>],
              [ack |-> "ack", hdr |-> <<6, 0>>, ok |-> FALSE, data |-> <<>>],
              [ack |-> "ack", hdr |-> <<0, 0>>, ok |-> TRUE, data |-> <<>>],
              [ack |-> "ack", hdr |-> <<1, 0>>, ok |-> TRUE, data |-> <<>>],
              [ack |-> "ack", hdr |-> <<6, 0>>, ok |-> TRUE, data |-> <<9, 8, 7, 6, 5, 4, 3, 2>>]}
        \cup {[ack |-> a, hdr |-> header_of(<<0, 0, 0, 0>>), ok |-> TRUE, data |-> <<0, 0, 0, 0>>] :
                a \in {"nack", "err"}}

\* ping and send_data hand the ACK read's value to the caller
ping(w, rep) ==
    LET w1 == read_ack(write_cmd(w, CMD_PING, <<>>), rep.ack)
    IN  [wire |-> w1,
         res |-> IF rep.ack = "err" THEN "io" ELSE "ok",
         ack |-> rep.ack = "ack"]

\* get_chip_id: CHIP_ID_RESPONSE_LEN
CHIP_ID_RESPONSE_LEN == 4

\* a slip: the value of the ACK read is not looked at
get_chip_id_unchecked(w, rep, checks) ==
    LET w1 == read_ack(write_cmd(w, CMD_GET_CHIP_ID, <<>>), rep.ack)
        r == read_response(w1, CHIP_ID_RESPONSE_LEN, rep, checks)
    IN  CASE rep.ack = "err" -> [wire |-> w1, res |-> "io", ret |-> <<0, 0>>]
          [] r.res # "ok" -> [wire |-> r.wire, res |-> r.res, ret |-> <<0, 0>>]
          [] OTHER -> [wire |-> write_ack(r.wire, TRUE), res |-> "ok",
                       ret |-> from_be_bytes(r.data)]

get_chip_id(w, rep, checks) ==
    LET w1 == read_ack(write_cmd(w, CMD_GET_CHIP_ID, <<>>), rep.ack)
        r == read_response(w1, CHIP_ID_RESPONSE_LEN, rep, checks)
    IN  CASE rep.ack = "err" -> [wire |-> w1, res |-> "io", ret |-> <<0, 0>>]
          [] rep.ack = "nack" -> [wire |-> w1, res |-> "nack", ret |-> <<0, 0>>]
          [] r.res # "ok" -> [wire |-> r.wire, res |-> r.res, ret |-> <<0, 0>>]
          [] OTHER -> [wire |-> write_ack(r.wire, TRUE), res |-> "ok",
                       ret |-> from_be_bytes(r.data)]

set_xosc(w, rep) ==
    LET w1 == read_ack(write_cmd(w, CC2538_CMD_SET_XOSC, <<>>), rep.ack)
    IN  [wire |-> w1,
         res |-> CASE rep.ack = "err" -> "io"
                   [] rep.ack = "nack" -> "nack"
                   [] OTHER -> "ok"]

\* a slip: the number of bytes is sent as the number of accesses
memory_read_32_byte_count(w, address, len, rep, checks) ==
    LET w1 == read_ack(write_cmd(w, CMD_MEMORY_READ, to_be_bytes(address) \o <<1, len>>),
                       rep.ack)
        r == read_response(w1, len, rep, checks)
    IN  CASE rep.ack = "err" -> [wire |-> w1, res |-> "io", data |-> <<>>]
          [] rep.ack = "nack" -> [wire |-> w1, res |-> "nack", data |-> <<>>]
          [] r.res # "ok" -> [wire |-> r.wire, res |-> r.res, data |-> <<>>]
          [] OTHER -> [wire |-> write_ack(r.wire, TRUE), res |-> "ok", data |-> r.data]

\* the caller has checked memory_read_32_panics; len is the buffer's length
memory_read_32(w, address, len, rep, checks) ==
    LET w1 == read_ack(write_cmd(w, CMD_MEMORY_READ, to_be_bytes(address) \o <<1, len \div 4>>),
                       rep.ack)
        r == read_response(w1, len, rep, checks)
    IN  CASE rep.ack = "err" -> [wire |-> w1, res |-> "io", data |-> <<>>]
          [] rep.ack = "nack" -> [wire |-> w1, res |-> "nack", data |-> <<>>]
          [] r.res # "ok" -> [wire |-> r.wire, res |-> r.res, data |-> <<>>]
          [] OTHER -> [wire |-> write_ack(r.wire, TRUE), res |-> "ok", data |-> r.data]

\* a slip: on CC26xx the low 16 bits are taken as the sector count
flash_size_of_reg_wide(f, reg) ==
    IF f = "CC2538" THEN <<1, 0>>
    ELSE N(from_le_bytes(reg)[2] * sector_size(f))

\* read_flash_size, once the register has been read
flash_size_of_reg(f, reg) ==
    IF f = "CC2538"
    THEN LET flash_ctrl == from_le_bytes(reg)
             code == (flash_ctrl[2] \div 16) % 8
         IN  CASE code = 1 -> <<2, 0>>
               [] code = 2 -> <<4, 0>>
               [] code = 3 -> <<6, 0>>
               [] code = 4 -> <<8, 0>>
               [] code = 0 -> <<1, 0>>
               [] OTHER -> <<1, 0>>
    ELSE N((from_le_bytes(reg)[2] % 256) * sector_size(f))

\* ------------------------------------------------------------ state

VARIABLES
    entry,            \* which public function the run calls
    overflow_checks,  \* the build: TRUE panics on integer overflow, FALSE wraps
    family,           \* Device.family
    flash_size,       \* flash(): flash_size
    address,          \* FlashArgs.address
    binary,           \* flash(): the bytes of the firmware file
    force,            \* FlashArgs.force
    write_erase,      \* FlashArgs.write_erase
    overwrites_ccfg,  \* flash(): overwrites_ccfg
    efr_call,         \* erase_flash_range: whether called, start_address, byte_count
    sector_i,         \* erase_flash_range: i
    transfers,        \* write_flash_range: transfers
    wfr_called,       \* whether write_flash_range has been entered
    txfer_index,      \* write_flash_range: txfer_index
    bytes_left,       \* write_flash_range: bytes_left
    data_offset,      \* write_flash_range: data_offset
    chunk_index,      \* write_flash_range: chunk_index
    call,             \* the Device method or util function a library run calls
    port_timeout,     \* the read timeout of the port handed to Device::new, in ms
    device,           \* whether Device::new has returned a Device
    ack,              \* read_ack: ack, the bytes received so far after 0xFF 0xFF
    expired,          \* read_ack: whether the deadline had passed when the last read returned
    waited,           \* read_ack: the time spent in reads that timed out, in ms
    rts_state,        \* the port's RTS line
    dtr_state,        \* the port's DTR line
    step,             \* invoke_bootloader: how many pin writes have been made
    secondary_addr_offset,  \* read_ieee_address: secondary_addr_offset
    primary,          \* read_ieee_address: primary
    wire,             \* what the transport has seen, in order
    pc,               \* where the run stands
    result            \* what the entry function returned

inputs == <<entry, overflow_checks, family, flash_size, address, binary, force, write_erase,
           call, port_timeout>>

\* the state of read_ack, invoke_bootloader and read_ieee_address
locals == <<ack, expired, waited, rts_state, dtr_state, step, secondary_addr_offset, primary>>

efr_vars == <<efr_call, sector_i>>

wfr_vars == <<transfers, wfr_called, txfer_index, bytes_left, data_offset, chunk_index>>

vars == <<inputs, locals, device, overwrites_ccfg, efr_vars, wfr_vars, wire, pc, result>>

\* ------------------------------------------------------------ results

NoResult ==
    [kind |-> "none", ctx |-> "", msg |-> "", status |-> 0, mnemonic |-> "",
     chunk |-> 0, size |-> 0, addr |-> <<0, 0>>, page |-> <<0, 0>>, txfer |-> 0,
     iokind |-> "", flag |-> FALSE, value |-> <<0, 0>>, bytes |-> <<>>]

Ok == [NoResult EXCEPT !.kind = "ok"]

Panic(msg) == [NoResult EXCEPT !.kind = "panic", !.msg = msg]

Err(msg) == [NoResult EXCEPT !.kind = "err", !.msg = msg]

\* the failure of a device command: its not-acknowledged message or the
\* transport's error
CmdErr(res, nack_msg) ==
    IF res = "panic" THEN Panic("attempt to subtract with overflow")
    ELSE Err(IF res = "nack" THEN nack_msg ELSE "io")

\* a slip: the status is left out of the failure
StatusErr_bare(what, ret) == Err(what)

StatusErr(what, ret) ==
    [Err(what) EXCEPT !.status = ret, !.mnemonic = status_code_to_str(ret)]

\* anyhow's .context(): the failure wrapped in the caller's message
Context(r, ctx) == IF r.kind = "err" THEN [r EXCEPT !.ctx = ctx] ELSE r

\* ------------------------------------------------------------ erase_flash_range

MaxSectors == 3

\* the function returns r to its caller: flash() goes on after an Ok and
\* otherwise fails with its own context; a direct caller gets r
EfrReturn(r) ==
    IF entry = "flash" /\ r.kind = "ok"
    THEN pc' = "flash_bounds" /\ result' = result
    ELSE pc' = "done"
         /\ result' = IF entry = "flash" THEN Context(r, "Couldn't erase flash") ELSE r

\* a slip: a last, partial sector is not counted
sector_count_floor(f, byte_count) == DivS(byte_count, sector_size(f))

sector_count(f, byte_count) ==
    IF ModS(byte_count, sector_size(f)) # 0
    THEN Add(DivS(byte_count, sector_size(f)), N(1))
    ELSE DivS(byte_count, sector_size(f))

EfrErase ==
    /\ pc = "efr"
    /\ supports_erase(family)
    /\ \E rep \in {r \in Replies : r.status = COMMAND_RET_SUCCESS} :
         LET c == erase(wire, efr_call.start_address, efr_call.byte_count, rep)
         IN  /\ wire' = c.wire
             /\ EfrReturn(IF c.res = "ok" THEN Ok ELSE CmdErr(c.res, "failed to erase"))
    /\ UNCHANGED <<inputs, locals, device, overwrites_ccfg, efr_vars, wfr_vars>>

EfrSectorErase ==
    /\ pc = "efr"
    /\ ~supports_erase(family)
    /\ supports_sector_erase(family)
    /\ sector_i < MaxSectors \/ Ge(N(sector_i), sector_count(family, efr_call.byte_count))
    /\ LET sector_address == u32_add(efr_call.start_address, N(sector_i * sector_size(family)))
       IN  IF Ge(N(sector_i), sector_count(family, efr_call.byte_count))
           THEN wire' = wire /\ EfrReturn(Ok)
           ELSE IF sector_address.ovf /\ overflow_checks
           THEN wire' = wire /\ pc' = "done" /\ result' = Panic("attempt to add with overflow")
           ELSE IF sector_erase_panics(family, sector_address.val) # ""
           THEN wire' = wire /\ pc' = "done"
                /\ result' = Panic(sector_erase_panics(family, sector_address.val))
           ELSE \E rep \in {r \in Replies : r.status = COMMAND_RET_SUCCESS} :
                  LET c == sector_erase(wire, sector_address.val, rep)
                  IN  /\ wire' = c.wire
                      /\ IF c.res = "ok"
                         THEN pc' = "efr_status" /\ result' = result
                         ELSE EfrReturn(CmdErr(c.res, "failed to erase sector"))
    /\ UNCHANGED <<inputs, locals, device, overwrites_ccfg, efr_vars, wfr_vars>>

EfrStatus ==
    /\ pc = "efr_status"
    /\ \E rep \in Replies :
         LET g == get_status(wire, rep)
         IN  /\ wire' = g.wire
             /\ IF g.res # "ok"
                THEN EfrReturn(CmdErr(g.res, "COMMAND_GET_STATUS not acknowledged"))
                     /\ sector_i' = sector_i
                ELSE IF g.ret # COMMAND_RET_SUCCESS
                THEN EfrReturn(StatusErr("CMD_SECTOR_ERASE failed", g.ret))
                     /\ sector_i' = sector_i
                ELSE pc' = "efr" /\ result' = result /\ sector_i' = sector_i + 1
    /\ UNCHANGED <<inputs, locals, device, overwrites_ccfg, efr_call, wfr_vars>>

\* ------------------------------------------------------------ write_flash_range

Min(a, b) == IF a < b THEN a ELSE b

WfrReturn(r) ==
    /\ pc' = "done"
    /\ result' = IF entry = "flash" THEN Context(r, "Couldn't flash binary") ELSE r

\* the end of one pass of the while loop
WfrAdvance ==
    /\ bytes_left' = bytes_left - Min(MAX_BYTES_PER_TRANSFER, bytes_left)
    /\ data_offset' = data_offset + Min(MAX_BYTES_PER_TRANSFER, bytes_left)
    /\ chunk_index' = chunk_index + 1

\* a slip: every chunk is cut one byte too early
ChunkOf_short(t, offset, left) ==
    SubSeq(t.data, offset + 1, offset + Min(MAX_BYTES_PER_TRANSFER, left) - 1)

ChunkOf(t, offset, left) ==
    SubSeq(t.data, offset + 1, offset + Min(MAX_BYTES_PER_TRANSFER, left))

NotAcknowledged(f, chunk, chunk_addr, ci, ti) ==
    [Err("Chunk not acknowledged") EXCEPT
        !.chunk = ci, !.size = Len(chunk), !.addr = chunk_addr,
        !.page = address_to_page(f, chunk_addr).val, !.txfer = ti]

WfrDownload ==
    /\ pc = "wfr_transfer"
    /\ IF txfer_index >= Len(transfers)
       THEN wire' = wire /\ WfrReturn(Ok)
       ELSE \E rep \in {r \in Replies : r.status = COMMAND_RET_SUCCESS} :
              LET t == transfers[txfer_index + 1]
                  d == download(wire, t.start_address, N(Len(t.data)), rep)
              IN  /\ wire' = d.wire
                  /\ IF d.res = "ok"
                     THEN pc' = "wfr_status" /\ result' = result
                     ELSE WfrReturn(CmdErr(d.res, "COMMAND_DOWNLOAD not acknowledged"))
    /\ UNCHANGED <<inputs, locals, device, overwrites_ccfg, efr_vars, wfr_vars>>

WfrDownloadStatus ==
    /\ pc = "wfr_status"
    /\ \E rep \in Replies :
         LET g == get_status(wire, rep)
         IN  /\ wire' = g.wire
             /\ IF g.res # "ok"
                THEN WfrReturn(CmdErr(g.res, "COMMAND_GET_STATUS not acknowledged"))
                     /\ UNCHANGED <<bytes_left, data_offset, chunk_index>>
                ELSE IF g.ret # COMMAND_RET_SUCCESS
                THEN WfrReturn(StatusErr("CMD_DOWNLOAD failed", g.ret))
                     /\ UNCHANGED <<bytes_left, data_offset, chunk_index>>
                ELSE /\ pc' = "wfr_chunk" /\ result' = result
                     /\ bytes_left' = Len(transfers[txfer_index + 1].data)
                     /\ data_offset' = 0
                     /\ chunk_index' = 0
    /\ UNCHANGED <<inputs, locals, device, overwrites_ccfg, efr_vars, transfers, wfr_called, txfer_index>>

\* a slip: expect_ack is not consulted
after_send_data_always(expect_ack, s) ==
    IF s.res # "ok" THEN "io"
    ELSE IF s.ack THEN "status"
    ELSE "not_acknowledged"

\* what write_flash_range does with the result of one send_data: fail on a
\* transport error, go on to the next chunk, ask for the status, or fail on
\* the missing acknowledgement
after_send_data(expect_ack, s) ==
    IF s.res # "ok" THEN "io"
    ELSE IF ~expect_ack THEN "advance"
    ELSE IF s.ack THEN "status"
    ELSE "not_acknowledged"

WfrSendData ==
    /\ pc = "wfr_chunk"
    /\ LET t == transfers[txfer_index + 1]
           chunk == ChunkOf(t, data_offset, bytes_left)
           chunk_addr == u32_add(t.start_address, N(data_offset))
       IN  IF bytes_left = 0
           THEN /\ wire' = wire /\ pc' = "wfr_transfer" /\ result' = result
                /\ txfer_index' = txfer_index + 1
                /\ UNCHANGED <<bytes_left, data_offset, chunk_index>>
           ELSE IF chunk_addr.ovf /\ overflow_checks
           THEN /\ wire' = wire /\ pc' = "done"
                /\ result' = Panic("attempt to add with overflow")
                /\ UNCHANGED <<txfer_index, bytes_left, data_offset, chunk_index>>
           ELSE \E rep \in {r \in Replies : r.status = COMMAND_RET_SUCCESS} :
                  LET s == send_data(wire, chunk, rep)
                      what == after_send_data(t.expect_ack, s)
                  IN  /\ wire' = s.wire
                      /\ txfer_index' = txfer_index
                      /\ IF what = "io"
                         THEN WfrReturn(Err("io"))
                              /\ UNCHANGED <<bytes_left, data_offset, chunk_index>>
                         ELSE IF what = "advance"
                         THEN pc' = "wfr_chunk" /\ result' = result /\ WfrAdvance
                         ELSE IF what = "status"
                         THEN /\ pc' = "wfr_chunk_status" /\ result' = result
                              /\ UNCHANGED <<bytes_left, data_offset, chunk_index>>
                         ELSE IF address_to_page(family, chunk_addr.val).ovf /\ overflow_checks
                         THEN /\ pc' = "done"
                              /\ result' = Panic("attempt to subtract with overflow")
                              /\ UNCHANGED <<bytes_left, data_offset, chunk_index>>
                         ELSE /\ WfrReturn(NotAcknowledged(family, chunk, chunk_addr.val,
                                                           chunk_index, txfer_index))
                              /\ UNCHANGED <<bytes_left, data_offset, chunk_index>>
    /\ UNCHANGED <<inputs, locals, device, overwrites_ccfg, efr_vars, transfers, wfr_called>>

WfrChunkStatus ==
    /\ pc = "wfr_chunk_status"
    /\ \E rep \in Replies :
         LET g == get_status(wire, rep)
         IN  /\ wire' = g.wire
             /\ IF g.res # "ok"
                THEN WfrReturn(CmdErr(g.res, "COMMAND_GET_STATUS not acknowledged"))
                     /\ UNCHANGED <<bytes_left, data_offset, chunk_index>>
                ELSE IF g.ret # COMMAND_RET_SUCCESS
                THEN WfrReturn(StatusErr("CMD_SEND_DATA failed", g.ret))
                     /\ UNCHANGED <<bytes_left, data_offset, chunk_index>>
                ELSE pc' = "wfr_chunk" /\ result' = result /\ WfrAdvance
    /\ UNCHANGED <<inputs, locals, device, overwrites_ccfg, efr_vars, transfers, wfr_called, txfer_index>>

\* ------------------------------------------------------------ flash

IsCC26(f) == f \in {"CC26X0", "CC26X2"}

may_overwrite_ccfg(fsize, binary_offset_in_flash, len) ==
    LET ccfg_offset == u32_sub(fsize, N(CCFG_SIZE))
        binary_end_addr == u32_add(binary_offset_in_flash, N(len))
    IN  [val |-> Ge(binary_end_addr.val, ccfg_offset.val),
         ovf |-> ccfg_offset.ovf \/ binary_end_addr.ovf]

\* the byte count of the pre-erase
erase_len(ow, len) ==
    IF ow THEN usize_sub_as_u32(len, CCFG_SIZE) ELSE [val |-> N(len), ovf |-> FALSE]

\* a slip: one of the two CC26xx families is left out
refuses_one_family(f, ow, forced) == f = "CC26X2" /\ ow /\ ~forced

\* the write would reach the CCFG and the caller has not forced it
refuses(f, ow, forced) == IsCC26(f) /\ ow /\ ~forced

NoCall == [called |-> FALSE, start_address |-> <<0, 0>>, byte_count |-> <<0, 0>>]

\* no library call: the run is one of flash() or of write_flash_range alone
NoCmd == [op |-> "none", address |-> <<0, 0>>, count |-> <<0, 0>>, len |-> 0]

\* flash() up to its first use of the device: the checks and the call of
\* erase_flash_range
FlashStart ==
    /\ pc = "flash"
    /\ LET ow == may_overwrite_ccfg(flash_size, address, Len(binary))
           len == erase_len(ow.val, Len(binary))
       IN  IF Gt(N(Len(binary)), flash_size)
           THEN /\ pc' = "done" /\ result' = Err("Binary size is too large")
                /\ UNCHANGED <<overwrites_ccfg, efr_call>>
           ELSE IF Lt(address, flash_base(family))
           THEN /\ pc' = "done" /\ result' = Err("Start address out of range")
                /\ UNCHANGED <<overwrites_ccfg, efr_call>>
           ELSE IF ow.ovf /\ overflow_checks
           THEN /\ pc' = "done" /\ result' = Panic("arithmetic overflow")
                /\ UNCHANGED <<overwrites_ccfg, efr_call>>
           ELSE IF refuses(family, ow.val, force)
           THEN /\ pc' = "done" /\ result' = Err("Binary may overwrite the CCFG")
                /\ overwrites_ccfg' = ow.val
                /\ UNCHANGED efr_call
           ELSE IF ~write_erase
           THEN /\ pc' = "flash_bounds" /\ result' = result
                /\ overwrites_ccfg' = ow.val
                /\ UNCHANGED efr_call
           ELSE IF len.ovf /\ overflow_checks
           THEN /\ pc' = "done" /\ result' = Panic("attempt to subtract with overflow")
                /\ overwrites_ccfg' = ow.val
                /\ UNCHANGED efr_call
           ELSE /\ pc' = "efr" /\ result' = result
                /\ overwrites_ccfg' = ow.val
                /\ efr_call' = [called |-> TRUE, start_address |-> address,
                                byte_count |-> len.val]
    /\ UNCHANGED <<inputs, locals, device, sector_i, wfr_vars, wire>>

Transfer(data, start_address, expect_ack) ==
    [data |-> data, start_address |-> start_address, expect_ack |-> expect_ack]

\* a slip: the CCFG transfer is given the address of the whole binary
build_transfers_same_start(f, ow, bin, addr, checks) ==
    IF IsCC26(f) /\ ow
    THEN IF Len(bin) < CCFG_SIZE
         THEN [panic |-> TRUE, txs |-> <<>>]
         ELSE [panic |-> FALSE,
               txs |-> << Transfer(SubSeq(bin, 1, Len(bin) - CCFG_SIZE), addr, TRUE),
                          Transfer(SubSeq(bin, Len(bin) - CCFG_SIZE + 1, Len(bin)),
                                   addr, FALSE) >>]
    ELSE [panic |-> FALSE, txs |-> << Transfer(bin, addr, TRUE) >>]

\* a slip: the first transfer takes one byte of the last 88
build_transfers_split_late(f, ow, bin, addr, checks) ==
    LET end == u32_add(addr, N(Len(bin)))
        second == u32_sub(end.val, N(CCFG_SIZE - 1))
    IN  IF IsCC26(f) /\ ow
        THEN IF Len(bin) < CCFG_SIZE \/ ((end.ovf \/ second.ovf) /\ checks)
             THEN [panic |-> TRUE, txs |-> <<>>]
             ELSE [panic |-> FALSE,
                   txs |-> << Transfer(SubSeq(bin, 1, Len(bin) - CCFG_SIZE + 1), addr, TRUE),
                              Transfer(SubSeq(bin, Len(bin) - CCFG_SIZE + 2, Len(bin)),
                                       second.val, FALSE) >>]
        ELSE [panic |-> FALSE, txs |-> << Transfer(bin, addr, TRUE) >>]

\* the transfer list, or a panic: the slices need Len(bin) >= CCFG_SIZE, and
\* the second start address is computed in u32
build_transfers(f, ow, bin, addr, checks) ==
    LET end == u32_add(addr, N(Len(bin)))
        second == u32_sub(end.val, N(CCFG_SIZE))
    IN  IF IsCC26(f) /\ ow
        THEN IF Len(bin) < CCFG_SIZE \/ ((end.ovf \/ second.ovf) /\ checks)
             THEN [panic |-> TRUE, txs |-> <<>>]
             ELSE [panic |-> FALSE,
                   txs |-> << Transfer(SubSeq(bin, 1, Len(bin) - CCFG_SIZE), addr, TRUE),
                              Transfer(SubSeq(bin, Len(bin) - CCFG_SIZE + 1, Len(bin)),
                                       second.val, FALSE) >>]
        ELSE [panic |-> FALSE, txs |-> << Transfer(bin, addr, TRUE) >>]

\* flash() after the pre-erase: the last bounds check, the transfer list and
\* the call of write_flash_range
FlashBounds ==
    /\ pc = "flash_bounds"
    /\ LET end_addr == u32_add(address, N(Len(binary)))
           limit == u32_add(flash_base(family), flash_size)
           b == build_transfers(family, overwrites_ccfg, binary, address, overflow_checks)
       IN  IF (end_addr.ovf \/ limit.ovf) /\ overflow_checks
           THEN /\ pc' = "done" /\ result' = Panic("attempt to add with overflow")
                /\ UNCHANGED <<transfers, wfr_called>>
           ELSE IF Gt(end_addr.val, limit.val)
           THEN /\ pc' = "done" /\ result' = Err("Binary file is too large for flash")
                /\ UNCHANGED <<transfers, wfr_called>>
           ELSE IF b.panic
           THEN /\ pc' = "done" /\ result' = Panic("slice of the binary out of range")
                /\ UNCHANGED <<transfers, wfr_called>>
           ELSE /\ pc' = "wfr_transfer" /\ result' = result
                /\ transfers' = b.txs
                /\ wfr_called' = TRUE
    /\ UNCHANGED <<inputs, locals, device, overwrites_ccfg, efr_vars, txfer_index, bytes_left,
                   data_offset, chunk_index, wire>>

\* ------------------------------------------------------------ Device::new

\* why an ACK read fails, and the error read_ack returns then: its own error
\* (kind Other) at the deadline and at end-of-stream, the port's error as it is
AckFailures == {"deadline", "eof", "transport"}

read_ack_error(why) ==
    CASE why = "deadline" ->
           [Err("ACK bytes not found, timed out") EXCEPT !.iokind = "Other"]
      [] why = "eof" -> [Err("unexpected EOF") EXCEPT !.iokind = "Other"]
      [] OTHER -> [Err("io") EXCEPT !.iokind = "Transport"]

\* a slip: the dummy command is not sent
dummy_command_none(w) == w

\* init_communications: the dummy command
dummy_command(w) == write_cmd(w, 0, <<>>)

\* perform_auto_baud: the two synchronisation bytes, written and not flushed
auto_baud_bytes(w) == w \o << Ev("write", <<85, 85>>, "ok") >>

\* Device::new up to the first ACK read of init_communications
DeviceNew ==
    /\ pc = "new"
    /\ \E r \in AckReplies :
         /\ wire' = read_ack(dummy_command(wire), r)
         /\ IF r = "err"
            THEN pc' = "auto_baud" /\ device' = device
            ELSE pc' = "ready" /\ device' = TRUE
    /\ UNCHANGED <<inputs, locals, overwrites_ccfg, efr_vars, wfr_vars, result>>

PerformAutoBaud ==
    /\ pc = "auto_baud"
    /\ \E o \in {"ack", "nack"} \cup AckFailures :
         /\ wire' = read_ack(auto_baud_bytes(wire), IF o \in AckFailures THEN "err" ELSE o)
         /\ IF o = "ack"
            THEN pc' = "ready" /\ device' = TRUE /\ result' = result
            ELSE IF o = "nack"
            THEN /\ pc' = "done" /\ device' = device
                 /\ result' = [Err("couldn't synchronize bootloader baudrate")
                                 EXCEPT !.iokind = "NotConnected"]
            ELSE /\ pc' = "done" /\ device' = device
                 /\ result' = read_ack_error(o)
    /\ UNCHANGED <<inputs, locals, overwrites_ccfg, efr_vars, wfr_vars>>

\* ------------------------------------------------------------ one call on the Device

\* the bytes of a file or buffer: n bytes that differ from place to place
Bytes(seed, n) == [i \in 1..n |-> (seed + (5 * i)) % 256]

AckOnly == {r \in Replies : r.status = COMMAND_RET_SUCCESS}

Return(r) == pc' = "done" /\ result' = r

\* the result of a command that returns io::Result<()>
UnitResult(c, nack_msg) == IF c.res = "ok" THEN Ok ELSE CmdErr(c.res, nack_msg)

Called(op) == pc = "ready" /\ call.op = op

Ping ==
    /\ Called("ping")
    /\ \E rep \in AckOnly :
         LET c == ping(wire, rep)
         IN  /\ wire' = c.wire
             /\ Return(IF c.res = "ok" THEN [Ok EXCEPT !.flag = c.ack] ELSE Err("io"))
    /\ UNCHANGED <<inputs, locals, device, overwrites_ccfg, efr_vars, wfr_vars>>

Download ==
    /\ Called("download")
    /\ \E rep \in AckOnly :
         LET c == download(wire, call.address, call.count, rep)
         IN  wire' = c.wire /\ Return(UnitResult(c, "COMMAND_DOWNLOAD not acknowledged"))
    /\ UNCHANGED <<inputs, locals, device, overwrites_ccfg, efr_vars, wfr_vars>>

GetStatus ==
    /\ Called("get_status")
    /\ \E rep \in Replies :
         LET c == get_status(wire, rep)
         IN  /\ wire' = c.wire
             /\ Return(IF c.res = "ok" THEN [Ok EXCEPT !.status = c.ret]
                       ELSE CmdErr(c.res, "COMMAND_GET_STATUS not acknowledged"))
    /\ UNCHANGED <<inputs, locals, device, overwrites_ccfg, efr_vars, wfr_vars>>

SendData ==
    /\ Called("send_data")
    /\ IF send_data_panics(call.len) # ""
       THEN wire' = wire /\ Return(Panic(send_data_panics(call.len)))
       ELSE \E rep \in AckOnly :
              LET c == send_data(wire, Bytes(1, call.len), rep)
              IN  /\ wire' = c.wire
                  /\ Return(IF c.res = "ok" THEN [Ok EXCEPT !.flag = c.ack] ELSE Err("io"))
    /\ UNCHANGED <<inputs, locals, device, overwrites_ccfg, efr_vars, wfr_vars>>

GetChipId ==
    /\ Called("get_chip_id")
    /\ \E rep \in RegReplies :
         LET c == get_chip_id(wire, rep, overflow_checks)
         IN  /\ wire' = c.wire
             /\ Return(IF c.res = "ok" THEN [Ok EXCEPT !.value = c.ret]
                       ELSE CmdErr(c.res, "bootloader didn't acknowledge the command"))
    /\ UNCHANGED <<inputs, locals, device, overwrites_ccfg, efr_vars, wfr_vars>>

Erase ==
    /\ Called("erase")
    /\ IF erase_panics(family) # ""
       THEN wire' = wire /\ Return(Panic(erase_panics(family)))
       ELSE \E rep \in AckOnly :
              LET c == erase(wire, call.address, call.count, rep)
              IN  wire' = c.wire /\ Return(UnitResult(c, "failed to erase"))
    /\ UNCHANGED <<inputs, locals, device, overwrites_ccfg, efr_vars, wfr_vars>>

SectorErase ==
    /\ Called("sector_erase")
    /\ IF sector_erase_panics(family, call.address) # ""
       THEN wire' = wire /\ Return(Panic(sector_erase_panics(family, call.address)))
       ELSE \E rep \in AckOnly :
              LET c == sector_erase(wire, call.address, rep)
              IN  wire' = c.wire /\ Return(UnitResult(c, "failed to erase sector"))
    /\ UNCHANGED <<inputs, locals, device, overwrites_ccfg, efr_vars, wfr_vars>>

SetXosc ==
    /\ Called("set_xosc")
    /\ IF set_xosc_panics(family) # ""
       THEN wire' = wire /\ Return(Panic(set_xosc_panics(family)))
       ELSE \E rep \in AckOnly :
              LET c == set_xosc(wire, rep)
              IN  wire' = c.wire /\ Return(UnitResult(c, "failed to switch to xosc"))
    /\ UNCHANGED <<inputs, locals, device, overwrites_ccfg, efr_vars, wfr_vars>>

MemoryRead32 ==
    /\ Called("memory_read_32")
    /\ IF memory_read_32_panics(family, call.address, call.len) # ""
       THEN wire' = wire
            /\ Return(Panic(memory_read_32_panics(family, call.address, call.len)))
       ELSE \E rep \in RegReplies :
              LET c == memory_read_32(wire, call.address, call.len, rep, overflow_checks)
              IN  /\ wire' = c.wire
                  /\ Return(IF c.res = "ok" THEN [Ok EXCEPT !.bytes = c.data]
                            ELSE CmdErr(c.res, "failed to read memory"))
    /\ UNCHANGED <<inputs, locals, device, overwrites_ccfg, efr_vars, wfr_vars>>

\* ------------------------------------------------------------ read_flash_size

flash_size_register(f) ==
    IF f = "CC2538" THEN CC2538_FLASH_CTRL_O_DIECFG0 ELSE CC26XX_FLASH_O_FLASH_SIZE

ReadFlashSize ==
    /\ Called("read_flash_size")
    /\ LET addr == flash_size_register(family)
       IN  IF memory_read_32_panics(family, addr, REG32_SIZE) # ""
           THEN wire' = wire
                /\ Return(Panic(memory_read_32_panics(family, addr, REG32_SIZE)))
           ELSE \E rep \in RegReplies :
                  LET c == memory_read_32(wire, addr, REG32_SIZE, rep, overflow_checks)
                  IN  /\ wire' = c.wire
                      /\ Return(IF c.res = "ok"
                                THEN [Ok EXCEPT !.value = flash_size_of_reg(family, c.data)]
                                ELSE CmdErr(c.res, "failed to read memory"))
    /\ UNCHANGED <<inputs, locals, device, overwrites_ccfg, efr_vars, wfr_vars>>

\* ------------------------------------------------------------ the framer alone

\* write_cmd(cmd, data) called on its own
WriteCmd ==
    /\ Called("write_cmd")
    /\ IF write_cmd_panics(call.data) # ""
       THEN wire' = wire /\ Return(Panic(write_cmd_panics(call.data)))
       ELSE wire' = write_cmd(wire, call.cmd, call.data) /\ Return(Ok)
    /\ UNCHANGED <<inputs, locals, device, overwrites_ccfg, efr_vars, wfr_vars>>

\* command_checksum(cmd, data) called on its own
CommandChecksum ==
    /\ Called("command_checksum")
    /\ wire' = wire
    /\ Return([Ok EXCEPT !.value = N(command_checksum(call.cmd, call.data))])
    /\ UNCHANGED <<inputs, locals, device, overwrites_ccfg, efr_vars, wfr_vars>>

\* ------------------------------------------------------------ invoke_bootloader

\* a slip: the bootloader pin is left at the level it had during the reset
invoke_steps_no_release(bootloader_active_high) ==
    << [pin |-> "bootloader", level |-> ~bootloader_active_high],
       [pin |-> "reset", level |-> FALSE],
       [pin |-> "reset", level |-> TRUE],
       [pin |-> "reset", level |-> FALSE],
       [pin |-> "bootloader", level |-> ~bootloader_active_high] >>

\* the pin writes of invoke_bootloader, in order
invoke_steps(bootloader_active_high) ==
    << [pin |-> "bootloader", level |-> ~bootloader_active_high],
       [pin |-> "reset", level |-> FALSE],
       [pin |-> "reset", level |-> TRUE],
       [pin |-> "reset", level |-> FALSE],
       [pin |-> "bootloader", level |-> bootloader_active_high] >>

\* set_bootloader_pin and set_reset_pin: the line each of them drives
line_of(pin, inverted) ==
    IF pin = "bootloader"
    THEN (IF inverted THEN "rts" ELSE "dtr")
    ELSE (IF inverted THEN "dtr" ELSE "rts")

\* one pin write of invoke_bootloader; a write the port refuses ends the call
InvokeBootloader ==
    /\ pc = "invoke_bootloader"
    /\ LET s == invoke_steps(call.bootloader_active_high)[step + 1]
           line == line_of(s.pin, call.inverted)
       IN  \E ok \in BOOLEAN :
             IF ~ok
             THEN /\ Return([Err("io") EXCEPT !.iokind = "Transport"])
                  /\ UNCHANGED <<rts_state, dtr_state, step>>
             ELSE /\ rts_state' = IF line = "rts" THEN s.level ELSE rts_state
                  /\ dtr_state' = IF line = "dtr" THEN s.level ELSE dtr_state
                  /\ step' = step + 1
                  /\ IF step + 1 = Len(invoke_steps(call.bootloader_active_high))
                     THEN Return(Ok)
                     ELSE pc' = pc /\ result' = result
    /\ UNCHANGED <<inputs, ack, expired, waited, secondary_addr_offset, primary,
                   device, overwrites_ccfg, efr_vars, wfr_vars, wire>>

\* ------------------------------------------------------------ read_ack, byte by byte

\* read_ack's overall deadline, in ms
timeout_ms == 1000

\* how many reads a run of read_ack makes at most
MaxReads == 5

\* what one port.read of one byte can return
AckAlphabet == {0, ACK, NACK, 255}

ReadOutcomes ==
    {[res |-> "ok", bytes |-> <<b>>] : b \in AckAlphabet}
      \cup {[res |-> r, bytes |-> <<>>] : r \in {"timeout", "eof", "err"}}

\* a slip: a read that timed out empties the window
push_read_timeout_clears(a, r) ==
    IF r.res = "ok" THEN Append(a, r.bytes[1]) ELSE <<255, 255>>

\* the match on port.read: only a byte read is pushed
push_read(a, r) == IF r.res = "ok" THEN Append(a, r.bytes[1]) ELSE a

\* a slip: only the last byte is looked at
ack_found_last_only(a) == a[Len(a)] = ACK \/ a[Len(a)] = NACK

\* the last two bytes are 0x00 and ACK or NACK
ack_found(a) == a[Len(a) - 1] = 0 /\ (a[Len(a)] = ACK \/ a[Len(a)] = NACK)

\* a slip: the deadline is looked at before the bytes
loop_exit_deadline_first(a, late) ==
    IF late THEN "timed out" ELSE IF ack_found(a) THEN "break" ELSE "loop"

\* the end of one turn of the loop
loop_exit(a, late) ==
    IF ack_found(a) THEN "break" ELSE IF late THEN "timed out" ELSE "loop"

\* one turn of read_ack's loop: one read, then the two checks; a read that
\* timed out took port_timeout ms, and the deadline may pass during any read
ReadAckLoop ==
    /\ pc = "read_ack"
    /\ Len(wire) < MaxReads
    /\ \E r \in ReadOutcomes, late \in BOOLEAN :
         LET a == push_read(ack, r)
             t == waited + (IF r.res = "timeout" THEN port_timeout ELSE 0)
             e == expired \/ late \/ t >= timeout_ms
         IN  /\ wire' = Append(wire, Ev("read", r.bytes, r.res))
             /\ waited' = t
             /\ expired' = e
             /\ IF r.res = "eof"
                THEN ack' = ack /\ Return(read_ack_error("eof"))
                ELSE IF r.res = "err"
                THEN ack' = ack /\ Return(read_ack_error("transport"))
                ELSE /\ ack' = a
                     /\ IF loop_exit(a, e) = "break"
                        THEN Return([Ok EXCEPT !.flag = (a[Len(a)] = ACK)])
                        ELSE IF loop_exit(a, e) = "timed out"
                        THEN Return(read_ack_error("deadline"))
                        ELSE pc' = pc /\ result' = result
    /\ UNCHANGED <<inputs, rts_state, dtr_state, step, secondary_addr_offset, primary,
                   device, overwrites_ccfg, efr_vars, wfr_vars>>

\* ------------------------------------------------------------ read_response alone

\* the responses a device may send: every length byte around the buffer
\* lengths, a header that cannot be read, and a payload that cannot be read
ResponseReplies ==
    {[hdr |-> <<l, k>>, data |-> Bytes(3, 8), ok |-> o] :
        l \in {0, 1, 2, 3, 4, 6, 10, 255}, k \in {0, 255}, o \in BOOLEAN}
      \cup {[hdr |-> <<>>, data |-> <<>>, ok |-> FALSE]}

\* read_response(&mut response) with a buffer of call.len bytes
ReadResponse ==
    /\ Called("read_response")
    /\ \E rep \in ResponseReplies :
         LET r == read_response(wire, call.len, rep, overflow_checks)
         IN  /\ wire' = r.wire
             /\ Return(IF r.res = "ok" THEN [Ok EXCEPT !.bytes = r.data]
                       ELSE IF r.res = "panic" THEN Panic(r.msg)
                       ELSE [Err(r.msg) EXCEPT !.iokind = "Other"])
    /\ UNCHANGED <<inputs, locals, device, overwrites_ccfg, efr_vars, wfr_vars>>

\* ------------------------------------------------------------ read_ieee_address

\* the length of an IEEE address
IEEE_ADDR_LEN == 8

\* 0x00280028 on CC2538
primary_addr_offset(f) ==
    IF f = "CC2538" THEN <<40, 40>> ELSE CC26XX_FCFG1_O_MAC_15_4_0

\* read_ieee_address up to the two reads: secondary_addr_offset is 0x0027ffcc
\* on CC2538 and read_flash_size(device)? - CCFG_SIZE as u32 + 0x20 on CC26xx
IeeeOffsets ==
    /\ Called("read_ieee_address")
    /\ IF family = "CC2538"
       THEN /\ wire' = wire /\ pc' = "ieee_primary" /\ result' = result
            /\ secondary_addr_offset' = <<39, 65484>>
       ELSE \E rep \in RegReplies :
              LET c == memory_read_32(wire, flash_size_register(family), REG32_SIZE, rep, overflow_checks)
                  ccfg_offset == u32_sub(flash_size_of_reg(family, c.data), N(CCFG_SIZE))
                  offset == u32_add(ccfg_offset.val, N(32))
              IN  /\ wire' = c.wire
                  /\ IF c.res # "ok"
                     THEN /\ Return(CmdErr(c.res, "failed to read memory"))
                          /\ secondary_addr_offset' = secondary_addr_offset
                     ELSE IF (ccfg_offset.ovf \/ offset.ovf) /\ overflow_checks
                     THEN /\ Return(Panic("attempt to subtract with overflow"))
                          /\ secondary_addr_offset' = secondary_addr_offset
                     ELSE /\ pc' = "ieee_primary" /\ result' = result
                          /\ secondary_addr_offset' = offset.val
    /\ UNCHANGED <<inputs, ack, expired, waited, rts_state, dtr_state, step, primary,
                   device, overwrites_ccfg, efr_vars, wfr_vars>>

IeeePrimary ==
    /\ pc = "ieee_primary"
    /\ LET addr == primary_addr_offset(family)
       IN  IF memory_read_32_panics(family, addr, IEEE_ADDR_LEN) # ""
           THEN /\ wire' = wire /\ primary' = primary
                /\ Return(Panic(memory_read_32_panics(family, addr, IEEE_ADDR_LEN)))
           ELSE \E rep \in RegReplies :
                  LET c == memory_read_32(wire, addr, IEEE_ADDR_LEN, rep, overflow_checks)
                  IN  /\ wire' = c.wire
                      /\ IF c.res = "ok"
                         THEN pc' = "ieee_secondary" /\ result' = result /\ primary' = c.data
                         ELSE /\ Return(CmdErr(c.res, "failed to read memory"))
                              /\ primary' = primary
    /\ UNCHANGED <<inputs, ack, expired, waited, rts_state, dtr_state, step,
                   secondary_addr_offset,
                   device, overwrites_ccfg, efr_vars, wfr_vars>>

IeeeSecondary ==
    /\ pc = "ieee_secondary"
    /\ LET addr == secondary_addr_offset
       IN  IF memory_read_32_panics(family, addr, IEEE_ADDR_LEN) # ""
           THEN /\ wire' = wire
                /\ Return(Panic(memory_read_32_panics(family, addr, IEEE_ADDR_LEN)))
           ELSE \E rep \in RegReplies :
                  LET c == memory_read_32(wire, addr, IEEE_ADDR_LEN, rep, overflow_checks)
                  IN  /\ wire' = c.wire
                      /\ Return(IF c.res = "ok"
                                THEN [Ok EXCEPT !.bytes = <<primary, c.data>>]
                                ELSE CmdErr(c.res, "failed to read memory"))
    /\ UNCHANGED <<inputs, locals, device, overwrites_ccfg, efr_vars, wfr_vars>>

\* a direct call of write_flash_range(device, transfers)
CallWriteFlashRange ==
    /\ Called("write_flash_range")
    /\ pc' = "wfr_transfer"
    /\ transfers' = call.transfers
    /\ wfr_called' = TRUE
    /\ UNCHANGED <<inputs, locals, device, overwrites_ccfg, efr_vars, txfer_index, bytes_left,
                   data_offset, chunk_index, wire, result>>

\* a direct call of erase_flash_range(device, start_address, byte_count)
CallEraseFlashRange ==
    /\ Called("erase_flash_range")
    /\ pc' = "efr"
    /\ efr_call' = [called |-> TRUE, start_address |-> call.address,
                    byte_count |-> call.count]
    /\ UNCHANGED <<inputs, locals, device, overwrites_ccfg, sector_i, wfr_vars, wire, result>>

\* ------------------------------------------------------------ inputs

MaxLen == 505

MaxTransfers == 2

\* the flash size main() reads from the device (read_flash_size)
FlashSizeOf(f) ==
    CASE f = "CC2538" -> <<8, 0>>
      [] f = "CC26X0" -> N(32 * 4092)
      [] f = "CC26X2" -> <<2, 0>>

BinaryLens == {0, 1, 87, 88, 89, 252, 253, 256, 500, MaxLen}

TopOfU32 == <<Half - 1, Half - 1>>

\* start addresses: the flash base, eight sectors in, the places where the
\* binary ends at the CCFG or at the end of the flash (and one byte off), and
\* two addresses near the top of the u32 range
Addresses(f, len) ==
    LET fs == FlashSizeOf(f)
        top == Add(flash_base(f), fs)
    IN  { flash_base(f),
          Add(flash_base(f), N(8 * sector_size(f))),
          Sub(fs, N(CCFG_SIZE + len)),
          Sub(fs, N(len)),
          Sub(top, N(len)),
          Add(Sub(top, N(len)), N(1)),
          TopOfU32,
          Sub(TopOfU32, N(MAX_BYTES_PER_TRANSFER - 1)) }

\* a transfer list for a direct call of write_flash_range
DirectLens == {0, 1, MAX_BYTES_PER_TRANSFER + 1}

DirectTransfer(f, k, len, ea) ==
    Transfer(Bytes(k, len), Add(flash_base(f), N(65536 + (4096 * k))), ea)

DirectLists(f) ==
    UNION { { [k \in 1..n |-> DirectTransfer(f, k, ls[k], eas[k])] :
                ls \in [1..n -> DirectLens], eas \in [1..n -> BOOLEAN] } :
            n \in 1..MaxTransfers }

InitRun ==
    /\ overwrites_ccfg = FALSE
    /\ efr_call = NoCall
    /\ sector_i = 0
    /\ txfer_index = 0
    /\ bytes_left = 0
    /\ data_offset = 0
    /\ chunk_index = 0
    /\ wire = <<>>
    /\ result = NoResult
    /\ ack = <<255, 255>>
    /\ expired = FALSE
    /\ waited = 0
    /\ rts_state = FALSE
    /\ dtr_state = FALSE
    /\ step = 0
    /\ secondary_addr_offset = <<0, 0>>
    /\ primary = <<>>

InitFlash ==
    /\ entry = "flash"
    /\ pc = "flash"
    /\ overflow_checks \in BOOLEAN
    /\ family \in Family
    /\ flash_size = FlashSizeOf(family)
    /\ \E len \in BinaryLens :
         /\ binary = Bytes(1, len)
         /\ address \in Addresses(family, len)
    /\ force \in BOOLEAN
    /\ write_erase \in BOOLEAN
    /\ transfers = <<>>
    /\ wfr_called = FALSE
    /\ call = NoCmd
    /\ port_timeout = 200
    /\ device = TRUE
    /\ InitRun

InitWrite ==
    /\ entry = "write_flash_range"
    /\ pc = "wfr_transfer"
    /\ overflow_checks = TRUE
    /\ family \in Family
    /\ flash_size = FlashSizeOf(family)
    /\ address = flash_base(family)
    /\ binary = <<>>
    /\ force = FALSE
    /\ write_erase = FALSE
    /\ transfers \in DirectLists(family)
    /\ wfr_called = TRUE
    /\ call = NoCmd
    /\ port_timeout = 200
    /\ device = TRUE
    /\ InitRun

\* the calls a library run makes on the Device it has constructed
Cmd(op, a, count, len) == [op |-> op, address |-> a, count |-> count, len |-> len]

\* addresses for erase, sector_erase and erase_flash_range: the flash base, one
\* and two sectors in, off a sector's start, and the last CC26X2 sector of the
\* u32 range
EraseAddresses(f) ==
    { flash_base(f),
      Add(flash_base(f), N(sector_size(f))),
      Add(flash_base(f), N(2 * sector_size(f))),
      Add(flash_base(f), N(100)),
      <<Half - 1, Half - 8192>> }

\* byte counts: none, one byte, up to MaxSectors sectors and one byte more
EraseCounts(f) ==
    {N(0), N(1), N(16384)}
        \cup {N(k * sector_size(f)) : k \in 1..MaxSectors}
        \cup {N((k * sector_size(f)) + 1) : k \in 1..MaxSectors}

DeviceCalls(f) ==
    {Cmd(op, <<0, 0>>, <<0, 0>>, 0) : op \in {"ping", "get_status", "get_chip_id",
                                                "set_xosc", "read_flash_size",
                                                "read_ieee_address"}}
        \cup {[op |-> "write_flash_range",
               transfers |-> << DirectTransfer(f, 1, MAX_BYTES_PER_TRANSFER + 1, TRUE),
                                DirectTransfer(f, 2, 1, FALSE) >>]}
        \cup {Cmd("download", flash_base(f), N(500), 0)}
        \cup {Cmd("send_data", <<0, 0>>, <<0, 0>>, len) :
                len \in {0, 4, MAX_BYTES_PER_TRANSFER, MAX_BYTES_PER_TRANSFER + 1}}
        \cup {Cmd("erase", a, N(4096), 0) : a \in EraseAddresses(f)}
        \cup {Cmd("sector_erase", a, <<0, 0>>, 0) : a \in EraseAddresses(f)}
        \cup {Cmd("memory_read_32", a, <<0, 0>>, len) :
                a \in {CC26XX_FLASH_O_FLASH_SIZE, Add(CC26XX_FLASH_O_FLASH_SIZE, N(2))},
                len \in {0, REG32_SIZE, 6, 8, 63 * 4, 64 * 4}}
        \cup {Cmd("erase_flash_range", a, c, 0) :
                a \in EraseAddresses(f), c \in EraseCounts(f)}

\* the timeouts a caller may have given the port: none set (0), what main()
\* sets, another one
PortTimeouts == {0, 200, 1000}

InitDevice ==
    /\ entry = "device"
    /\ pc = "new"
    /\ overflow_checks \in BOOLEAN
    /\ family \in Family
    /\ flash_size = FlashSizeOf(family)
    /\ address = flash_base(family)
    /\ binary = <<>>
    /\ force = FALSE
    /\ write_erase = FALSE
    /\ transfers = <<>>
    /\ wfr_called = FALSE
    /\ call \in DeviceCalls(family)
    /\ port_timeout \in PortTimeouts
    /\ device = FALSE
    /\ InitRun

\* payloads for the framer: empty, one byte, the bytes of the crate's checksum
\* test, and the longest payloads a packet can carry, one of them all 0xFF, and
\* one byte more
FramerPayloads ==
    { <<>>, <<255>>, <<222, 173, 190, 239>>,
      Bytes(1, MAX_BYTES_PER_TRANSFER), [i \in 1..MAX_BYTES_PER_TRANSFER |-> 255],
      Bytes(7, MAX_BYTES_PER_TRANSFER + 1) }

FramerCalls ==
    {[op |-> op, cmd |-> c, data |-> d] :
        op \in {"write_cmd", "command_checksum"}, c \in 0..U8_MAX, d \in FramerPayloads}
      \cup {Cmd("ping", <<0, 0>>, <<0, 0>>, 0)}

\* a constructed Device on which write_cmd, command_checksum or ping is called
InitFramer ==
    /\ entry = "framer"
    /\ pc = "ready"
    /\ overflow_checks \in BOOLEAN
    /\ family = "CC26X2"
    /\ flash_size = FlashSizeOf(family)
    /\ address = flash_base(family)
    /\ binary = <<>>
    /\ force = FALSE
    /\ write_erase = FALSE
    /\ transfers = <<>>
    /\ wfr_called = FALSE
    /\ call \in FramerCalls
    /\ port_timeout = 200
    /\ device = TRUE
    /\ InitRun

NextFramer ==
    \/ WriteCmd
    \/ CommandChecksum
    \/ Ping

SpecFramer == InitFramer /\ [][NextFramer]_vars

\* invoke_bootloader on a port whose two lines stand at any levels
InitInvoke ==
    /\ entry = "invoke_bootloader"
    /\ pc = "invoke_bootloader"
    /\ overflow_checks \in BOOLEAN
    /\ family = "CC26X2"
    /\ flash_size = FlashSizeOf(family)
    /\ address = flash_base(family)
    /\ binary = <<>>
    /\ force = FALSE
    /\ write_erase = FALSE
    /\ transfers = <<>>
    /\ wfr_called = FALSE
    /\ call \in {[op |-> "invoke_bootloader", inverted |-> i, bootloader_active_high |-> h] :
                   i \in BOOLEAN, h \in BOOLEAN}
    /\ port_timeout = 200
    /\ device = FALSE
    /\ overwrites_ccfg = FALSE
    /\ efr_call = NoCall
    /\ sector_i = 0
    /\ txfer_index = 0
    /\ bytes_left = 0
    /\ data_offset = 0
    /\ chunk_index = 0
    /\ wire = <<>>
    /\ result = NoResult
    /\ ack = <<255, 255>>
    /\ expired = FALSE
    /\ waited = 0
    /\ rts_state \in BOOLEAN
    /\ dtr_state \in BOOLEAN
    /\ step = 0
    /\ secondary_addr_offset = <<0, 0>>
    /\ primary = <<>>

SpecInvoke == InitInvoke /\ [][InvokeBootloader]_vars

\* read_ack called on a Device whose port has any of the read timeouts
InitReadAck ==
    /\ entry = "read_ack"
    /\ pc = "read_ack"
    /\ overflow_checks \in BOOLEAN
    /\ family = "CC26X2"
    /\ flash_size = FlashSizeOf(family)
    /\ address = flash_base(family)
    /\ binary = <<>>
    /\ force = FALSE
    /\ write_erase = FALSE
    /\ transfers = <<>>
    /\ wfr_called = FALSE
    /\ call = [op |-> "read_ack"]
    /\ port_timeout \in PortTimeouts
    /\ device = TRUE
    /\ InitRun

SpecReadAck == InitReadAck /\ [][ReadAckLoop]_vars

\* read_response called on a Device with buffers of 0 to 8 bytes
InitResponse ==
    /\ entry = "read_response"
    /\ pc = "ready"
    /\ overflow_checks \in BOOLEAN
    /\ family = "CC26X2"
    /\ flash_size = FlashSizeOf(family)
    /\ address = flash_base(family)
    /\ binary = <<>>
    /\ force = FALSE
    /\ write_erase = FALSE
    /\ transfers = <<>>
    /\ wfr_called = FALSE
    /\ call \in {[op |-> "read_response", len |-> n] : n \in {0, 1, 2, 4, 8}}
    /\ port_timeout = 200
    /\ device = TRUE
    /\ InitRun

SpecResponse == InitResponse /\ [][ReadResponse]_vars

\* a run of the flash subcommand
Next ==
    \/ FlashStart
    \/ EfrErase
    \/ EfrSectorErase
    \/ EfrStatus
    \/ FlashBounds
    \/ WfrDownload
    \/ WfrDownloadStatus
    \/ WfrSendData
    \/ WfrChunkStatus

Spec == InitFlash /\ [][Next]_vars

\* a direct call of write_flash_range
NextWrite ==
    \/ WfrDownload
    \/ WfrDownloadStatus
    \/ WfrSendData
    \/ WfrChunkStatus

SpecWrite == InitWrite /\ [][NextWrite]_vars

\* a library run: Device::new, then one call
NextDevice ==
    \/ DeviceNew
    \/ PerformAutoBaud
    \/ Ping
    \/ Download
    \/ GetStatus
    \/ SendData
    \/ GetChipId
    \/ Erase
    \/ SectorErase
    \/ SetXosc
    \/ MemoryRead32
    \/ ReadFlashSize
    \/ IeeeOffsets
    \/ IeeePrimary
    \/ IeeeSecondary
    \/ CallEraseFlashRange
    \/ EfrErase
    \/ EfrSectorErase
    \/ EfrStatus
    \/ CallWriteFlashRange
    \/ WfrDownload
    \/ WfrDownloadStatus
    \/ WfrSendData
    \/ WfrChunkStatus

SpecDevice == InitDevice /\ [][NextDevice]_vars

\* ------------------------------------------------------------ reading the transport's history

IsCommand(e) == e.kind = "write" /\ Len(e.bytes) >= HDR_LEN

\* The command packets of w from place j on, in order, each decoded from its
\* bytes (opcode, payload by the length byte) with the outcome of the ACK read
\* that follows it, the status byte of its response (-1: none was read) and
\* the transfer it belongs to (the Downloads up to it, k before place j).
RECURSIVE Exchanges(_, _, _)
Exchanges(w, j, k) ==
    IF j > Len(w) THEN <<>>
    ELSE IF IsCommand(w[j])
    THEN LET tx == IF w[j].bytes[3] = CMD_DOWNLOAD THEN k + 1 ELSE k
         IN  << [cmd |-> w[j].bytes[3],
                 data |-> SubSeq(w[j].bytes, HDR_LEN + 1, w[j].bytes[1]),
                 ack |-> IF j + 2 <= Len(w) /\ w[j + 2].kind = "read_ack"
                         THEN w[j + 2].res ELSE "none",
                 status |-> IF j + 4 <= Len(w) /\ w[j + 4].kind = "read_response"
                               /\ w[j + 4].res = "ok"
                            THEN w[j + 4].bytes[1] ELSE -1,
                 resp |-> IF j + 4 <= Len(w) /\ w[j + 4].kind = "read_response"
                          THEN w[j + 4].bytes ELSE <<>>,
                 tx |-> tx] >> \o Exchanges(w, j + 1, tx)
    ELSE Exchanges(w, j + 1, k)

\* the places in x of the SendData packets of transfer k, and the n-th of them
SendPlaces(x, k) == {i \in 1..Len(x) : x[i].cmd = CMD_SEND_DATA /\ x[i].tx = k}

NthPlace(S, n) == CHOOSE i \in S : Cardinality({j \in S : j <= i}) = n

\* the chunk index of the SendData at place i within its transfer
ChunkNo(x, i) == Cardinality({j \in SendPlaces(x, x[i].tx) : j < i})

IsSend(x, i) == x[i].cmd = CMD_SEND_DATA /\ x[i].tx \in 1..Len(transfers)

Finished(kind) == pc = "done" /\ result.kind = kind

\* ------------------------------------------------------------ C1

\* C1: for a transfer with expect_ack = false, a SendData that gets no reply at
\* all (the ACK read fails) does not make write_flash_range fail.
C1_NoReplyIgnored ==
    LET x == Exchanges(wire, 1, 0)
    IN  \A i \in 1..Len(x) :
          (IsSend(x, i) /\ ~transfers[x[i].tx].expect_ack /\ x[i].ack = "err")
              => result.kind # "err"

\* ------------------------------------------------------------ C2

\* C2: for a transfer with expect_ack = false, the ACK or NACK of a SendData is
\* ignored: it causes no failure, no GetStatus follows a chunk of that
\* transfer, the next command is the next chunk or the next transfer's
\* Download, and a run that ends Ok has sent every chunk of every transfer.
C2_AckValueIgnored ==
    LET x == Exchanges(wire, 1, 0)
    IN  /\ \A i \in 1..Len(x) :
             (IsSend(x, i) /\ ~transfers[x[i].tx].expect_ack /\ x[i].ack \in {"ack", "nack"})
                => /\ i = Len(x) => result.kind \in {"none", "ok"}
                   /\ i < Len(x) => x[i + 1].cmd \in {CMD_SEND_DATA, CMD_DOWNLOAD}
                   /\ (i = Len(x) /\ pc = "done")
                        => /\ x[i].tx = Len(transfers)
                           /\ (ChunkNo(x, i) + 1) * MAX_BYTES_PER_TRANSFER
                                >= Len(transfers[x[i].tx].data)
        /\ (Finished("ok") /\ wfr_called)
             => \A k \in 1..Len(transfers) :
                  Cardinality(SendPlaces(x, k)) * MAX_BYTES_PER_TRANSFER
                      >= Len(transfers[k].data)

C2_Witness ==
    LET x == Exchanges(wire, 1, 0)
    IN  /\ Finished("ok")
        /\ \E i \in 1..Len(x) :
             /\ IsSend(x, i) /\ ~transfers[x[i].tx].expect_ack /\ x[i].ack = "nack"
             /\ \E j \in (i + 1)..Len(x) : x[j].cmd = CMD_DOWNLOAD
             /\ \E j \in (i + 1)..Len(x) : x[j].cmd = CMD_SEND_DATA /\ x[j].tx = x[i].tx

\* ------------------------------------------------------------ C3

CeilDiv(n, d) == (n + d - 1) \div d

\* C3: the SendData packets of each transfer are its data cut into consecutive
\* pieces of 252 bytes (the last one shorter), each of 1 to 252 bytes, in
\* order; a run that ends Ok has sent exactly ceil(len / 252) of them.
C3_Chunks ==
    LET x == Exchanges(wire, 1, 0)
    IN  wfr_called =>
          \A k \in 1..Len(transfers) :
            LET d == transfers[k].data
                S == SendPlaces(x, k)
            IN  /\ Cardinality(S) <= CeilDiv(Len(d), MAX_BYTES_PER_TRANSFER)
                /\ Finished("ok") => Cardinality(S) = CeilDiv(Len(d), MAX_BYTES_PER_TRANSFER)
                /\ \A n \in 1..Cardinality(S) :
                     LET c == x[NthPlace(S, n)].data
                     IN  /\ Len(c) \in 1..MAX_BYTES_PER_TRANSFER
                         /\ c = SubSeq(d, (MAX_BYTES_PER_TRANSFER * (n - 1)) + 1,
                                       Min(MAX_BYTES_PER_TRANSFER * n, Len(d)))

\* 500 bytes at 0x10000 on CC26X2 with a flash of 0x20000 bytes: one Download
\* of (0x10000, 500), then two SendData of 252 and 248 bytes
C3_Witness ==
    LET x == Exchanges(wire, 1, 0)
    IN  /\ Finished("ok")
        /\ family = "CC26X2" /\ flash_size = <<2, 0>> /\ address = <<1, 0>>
        /\ Len(binary) = 500 /\ ~write_erase
        /\ Len(x) = 6
        /\ x[1].cmd = CMD_DOWNLOAD /\ x[1].data = <<0, 1, 0, 0, 0, 0, 1, 244>>
        /\ x[2].cmd = CMD_GET_STATUS
        /\ x[3].cmd = CMD_SEND_DATA /\ x[3].data = SubSeq(binary, 1, 252)
        /\ x[4].cmd = CMD_GET_STATUS
        /\ x[5].cmd = CMD_SEND_DATA /\ x[5].data = SubSeq(binary, 253, 500)
        /\ x[6].cmd = CMD_GET_STATUS

\* ------------------------------------------------------------ C4

\* C4: the k-th Download carries the k-th transfer's start address and length,
\* both big-endian, and is the first command of its transfer; the command after
\* an acknowledged Download is GetStatus, and when that status is not 0x40 (or
\* cannot be read) nothing more is sent and the function has failed.
C4_DownloadFirst ==
    LET x == Exchanges(wire, 1, 0)
    IN  \A i \in 1..Len(x) :
          /\ x[i].cmd \in {CMD_DOWNLOAD, CMD_SEND_DATA, CMD_GET_STATUS}
          /\ x[i].tx \in 1..Len(transfers)
          /\ x[i].cmd = CMD_DOWNLOAD
               => /\ Len(x[i].data) = 8
                  /\ from_be_bytes(SubSeq(x[i].data, 1, 4)) = transfers[x[i].tx].start_address
                  /\ from_be_bytes(SubSeq(x[i].data, 5, 8)) = N(Len(transfers[x[i].tx].data))
                  /\ i < Len(x) => (x[i].ack = "ack" /\ x[i + 1].cmd = CMD_GET_STATUS)
                  /\ (i = Len(x) /\ x[i].ack # "ack") => Finished("err")
                  /\ (i + 1 <= Len(x) /\ x[i + 1].status # COMMAND_RET_SUCCESS)
                       => (i + 1 = Len(x) /\ Finished("err"))
          /\ (x[i].cmd = CMD_SEND_DATA /\ i > 2)
               => \E j \in 1..(i - 2) :
                    /\ x[j].cmd = CMD_DOWNLOAD /\ x[j].tx = x[i].tx
                    /\ x[j + 1].cmd = CMD_GET_STATUS
                    /\ x[j + 1].status = COMMAND_RET_SUCCESS
          /\ x[i].cmd = CMD_SEND_DATA => i > 2

\* the first transfer's Download is answered with a status other than SUCCESS
\* while a second transfer waits
C4_Witness ==
    LET x == Exchanges(wire, 1, 0)
    IN  /\ Finished("err")
        /\ result.msg = "CMD_DOWNLOAD failed"
        /\ result.status = COMMAND_RET_INVALID_ADR
        /\ Len(transfers) = 2
        /\ Len(transfers[2].data) > 0
        /\ Len(x) = 2

\* ------------------------------------------------------------ C5

\* the sum of the payload lengths of the SendData packets of the transfer of
\* place i that come before place i
SentBefore(x, i) ==
    LET S == {j \in SendPlaces(x, x[i].tx) : j < i}
    IN  IF S = {} THEN 0
        ELSE Cardinality(S) * MAX_BYTES_PER_TRANSFER

\* C5: in a transfer with expect_ack = true an acknowledged SendData is followed
\* by exactly one GetStatus; a NACK ends the function at once with a failure
\* that names the chunk index, the chunk's address, its page and the transfer
\* index; a status other than 0x40 ends it with nothing more sent.
C5_ExpectAck ==
    LET x == Exchanges(wire, 1, 0)
    IN  \A i \in 1..Len(x) :
          (IsSend(x, i) /\ transfers[x[i].tx].expect_ack)
            => LET t == transfers[x[i].tx]
                   chunk_address == Add(t.start_address, N(SentBefore(x, i)))
               IN  /\ x[i].ack = "ack"
                        => /\ i < Len(x) => x[i + 1].cmd = CMD_GET_STATUS
                           /\ i = Len(x) => (pc = "wfr_chunk_status" /\ result.kind = "none")
                           /\ i + 2 <= Len(x) => x[i + 2].cmd # CMD_GET_STATUS
                           /\ (i + 1 <= Len(x) /\ x[i + 1].status # COMMAND_RET_SUCCESS)
                                => (i + 1 = Len(x) /\ Finished("err"))
                   /\ x[i].ack = "nack"
                        => /\ i = Len(x)
                           /\ Finished("err")
                           /\ result.msg = "Chunk not acknowledged"
                           /\ result.chunk = ChunkNo(x, i)
                           /\ result.addr = chunk_address
                           /\ result.page = DivS(Sub(chunk_address, flash_base(family)),
                                                 sector_size(family))
                           /\ result.txfer = x[i].tx - 1
                           /\ result.size = Len(x[i].data)

\* the second chunk of the second transfer is not acknowledged, on the family
\* whose flash does not start at 0
C5_Witness ==
    /\ Finished("err")
    /\ result.msg = "Chunk not acknowledged"
    /\ result.chunk = 1
    /\ result.txfer = 1
    /\ family = "CC2538"
    /\ result.page = N(36)

\* ------------------------------------------------------------ the inputs of flash(), exactly

\* start_address + len(binary) as a number, not reduced to 32 bits
ExactEnd == Add(address, N(Len(binary)))

\* start_address + len(binary) >= flash_size - 88, over the integers
ExactOverwrites ==
    IF Lt(flash_size, N(CCFG_SIZE)) THEN TRUE
    ELSE Ge(ExactEnd, Sub(flash_size, N(CCFG_SIZE)))

\* flash() has evaluated may_overwrite_ccfg
OverwritesComputed ==
    /\ entry = "flash"
    /\ pc # "flash"
    /\ result.msg \notin {"Binary size is too large", "Start address out of range",
                          "arithmetic overflow"}

\* ------------------------------------------------------------ C6

\* C6: overwrites_ccfg is true exactly when start_address + len(binary) >=
\* flash_size - 88.
C6_OverwritesExactly == OverwritesComputed => (overwrites_ccfg <=> ExactOverwrites)

\* ------------------------------------------------------------ C7

\* C7: on CC26X0/CC26X2, with overwrites_ccfg true and force not set, flash()
\* has returned its refusal and nothing was sent to the device: no call of
\* erase_flash_range or write_flash_range, nothing on the transport.
C7_Refuses ==
    (/\ IsCC26(family) /\ ~force
     /\ \/ overwrites_ccfg
        \/ (OverwritesComputed /\ ExactOverwrites /\ Fits32(ExactEnd)))
      => /\ Finished("err")
         /\ result.msg = "Binary may overwrite the CCFG"
         /\ wire = <<>>
         /\ ~efr_call.called
         /\ ~wfr_called

C7_Witness ==
    /\ family = "CC26X0" /\ ~force /\ write_erase
    /\ overwrites_ccfg
    /\ Finished("err")
    /\ address = Sub(flash_size, N(CCFG_SIZE + Len(binary)))

\* ------------------------------------------------------------ C8

\* C8: the transfer list handed to write_flash_range is, on CC26X0/CC26X2 with
\* overwrites_ccfg (force being set), the binary without its last 88 bytes at
\* start_address with expect_ack, then the last 88 bytes at start_address +
\* len - 88 without; in every other case the whole binary at start_address
\* with expect_ack.
C8_TransferList ==
    (entry = "flash" /\ wfr_called)
      => IF IsCC26(family) /\ overwrites_ccfg
         THEN /\ force
              /\ Len(binary) >= CCFG_SIZE
              /\ transfers =
                   << [data |-> SubSeq(binary, 1, Len(binary) - CCFG_SIZE),
                       start_address |-> address, expect_ack |-> TRUE],
                      [data |-> SubSeq(binary, Len(binary) - CCFG_SIZE + 1, Len(binary)),
                       start_address |-> Wrap32(Sub(ExactEnd, N(CCFG_SIZE))),
                       expect_ack |-> FALSE] >>
         ELSE transfers =
                << [data |-> binary, start_address |-> address, expect_ack |-> TRUE] >>

\* flash_size 0x20000, start 0x1FF00, 256 bytes: (bytes[0..168], 0x1FF00, true)
\* and (bytes[168..256], 0x1FFA8, false)
C8_Witness ==
    /\ wfr_called
    /\ family = "CC26X2" /\ flash_size = <<2, 0>>
    /\ address = <<1, 65280>> /\ Len(binary) = 256
    /\ Len(transfers) = 2
    /\ transfers[1].data = SubSeq(binary, 1, 168)
    /\ transfers[1].start_address = <<1, 65280>> /\ transfers[1].expect_ack
    /\ transfers[2].data = SubSeq(binary, 169, 256)
    /\ transfers[2].start_address = <<1, 65448>> /\ ~transfers[2].expect_ack

\* ------------------------------------------------------------ C9

\* C9: write_flash_range is never called when len(binary) > flash_size, or
\* start_address < flash_base, or start_address + len(binary) > flash_base +
\* flash_size; such a run ends in a failure.
C9_BoundsRejected ==
    (/\ entry = "flash"
     /\ \/ Gt(N(Len(binary)), flash_size)
        \/ Lt(address, flash_base(family))
        \/ Gt(ExactEnd, Add(flash_base(family), flash_size)))
      => /\ ~wfr_called
         /\ pc = "done" => result.kind \in {"err", "panic"}

\* ------------------------------------------------------------ C10

\* C10: the pre-erase calls erase_flash_range at start_address with byte count
\* len(binary) - 88 if overwrites_ccfg and len(binary) otherwise.
C10_EraseCount ==
    (entry = "flash" /\ efr_call.called)
      => /\ write_erase
         /\ efr_call.start_address = address
         /\ IF overwrites_ccfg
            THEN Len(binary) >= CCFG_SIZE
                 /\ efr_call.byte_count = N(Len(binary) - CCFG_SIZE)
            ELSE efr_call.byte_count = N(Len(binary))

\* ------------------------------------------------------------ library runs

\* the run is a direct call of erase_flash_range on a constructed Device
EraseRangeRun == entry = "device" /\ device /\ call.op = "erase_flash_range"

IsSectorErase(e) == e.cmd = CC26X0_CMD_SECTOR_ERASE /\ Len(e.data) = 4

\* (A - flash_base) mod sector_size # 0, A below the flash base included
Misaligned(f, a) ==
    Lt(a, flash_base(f)) \/ ModS(Sub(a, flash_base(f)), sector_size(f)) # 0

\* nothing was written or read after Device::new returned: the history is the
\* dummy command and its ACK read, and the auto-baud bytes and theirs if any
OnlyConstruction(x) ==
    /\ Len(x) = 1
    /\ Len(wire) \in {3, 5}
    /\ wire[Len(wire)].kind = "read_ack"

\* ------------------------------------------------------------ C11

\* C11: on CC26X0/CC26X2, for a sector-aligned range inside the u32 address
\* space, erase_flash_range sends SectorErase and GetStatus in turn, the i-th
\* SectorErase (from 0) carrying start_address + i * sector_size, and a call
\* that returns Ok with a positive byte_count has sent exactly
\* ceil(byte_count / sector_size) of each.
C11_SectorErases ==
    LET x == Exchanges(wire, 1, 0)
        ss == sector_size(family)
        n == CeilDiv(call.count[2], ss)
    IN  (/\ EraseRangeRun /\ supports_sector_erase(family)
         /\ call.count[1] = 0
         /\ n > 0 => Fits32(Add(call.address, N((n - 1) * ss))))
          => /\ \A i \in 2..Len(x) :
                  IF i % 2 = 0
                  THEN /\ IsSectorErase(x[i])
                       /\ x[i].data = to_be_bytes(Add(call.address, N(((i - 2) \div 2) * ss)))
                       /\ i < Len(x) => x[i].ack = "ack"
                  ELSE /\ x[i].cmd = CMD_GET_STATUS
                       /\ i < Len(x) => x[i].status = COMMAND_RET_SUCCESS
             /\ (Finished("ok") /\ n > 0) => Len(x) = 1 + (2 * n)

\* CC26X2, start 0, byte_count 16384: SectorErase at 0x0 and at 0x2000, each
\* followed by GetStatus
C11_Witness ==
    LET x == Exchanges(wire, 1, 0)
    IN  /\ EraseRangeRun /\ Finished("ok")
        /\ family = "CC26X2" /\ call.address = <<0, 0>> /\ call.count = N(16384)
        /\ Len(x) = 5
        /\ IsSectorErase(x[2]) /\ x[2].data = <<0, 0, 0, 0>>
        /\ x[3].cmd = CMD_GET_STATUS
        /\ IsSectorErase(x[4]) /\ x[4].data = <<0, 0, 32, 0>>
        /\ x[5].cmd = CMD_GET_STATUS

\* ------------------------------------------------------------ C12

\* C12: in erase_flash_range on CC26X0/CC26X2 the first status byte that is not
\* 0x40 is the last thing exchanged: the call has failed with the status'
\* mnemonic and value in its failure; a SectorErase that is not acknowledged
\* or whose ACK read fails is the last thing exchanged too, and the call has
\* failed.
C12_EraseAborts ==
    LET x == Exchanges(wire, 1, 0)
    IN  (EraseRangeRun /\ supports_sector_erase(family))
          => \A i \in 2..Len(x) :
               /\ (x[i].cmd = CMD_GET_STATUS /\ x[i].ack = "ack"
                     /\ x[i].status \notin {COMMAND_RET_SUCCESS, -1})
                    => /\ i = Len(x)
                       /\ Finished("err")
                       /\ result.msg = "CMD_SECTOR_ERASE failed"
                       /\ result.status = x[i].status
                       /\ result.mnemonic =
                            CASE x[i].status = 67 -> "COMMAND_RET_INVALID_ADR"
                              [] x[i].status = 68 -> "COMMAND_RET_FLASH_FAIL"
                              [] OTHER -> "Unknown"
               /\ (IsSectorErase(x[i]) /\ x[i].ack \in {"nack", "err"})
                    => (i = Len(x) /\ Finished("err"))

\* the second of three sectors fails to erase
C12_Witness ==
    LET x == Exchanges(wire, 1, 0)
    IN  /\ EraseRangeRun /\ Finished("err")
        /\ call.count = N(3 * sector_size(family))
        /\ Len(x) = 5
        /\ result.status = COMMAND_RET_FLASH_FAIL
        /\ result.mnemonic = "COMMAND_RET_FLASH_FAIL"

\* ------------------------------------------------------------ C13

\* C13: on CC2538 erase_flash_range sends one Erase packet whose payload is
\* start_address then byte_count, both big-endian, and returns: no other
\* command (no SectorErase, no GetStatus) is sent.
C13_SingleErase ==
    LET x == Exchanges(wire, 1, 0)
    IN  (EraseRangeRun /\ supports_erase(family))
          => /\ Len(x) <= 2
             /\ pc = "done" => Len(x) = 2
             /\ Len(x) = 2
                  => /\ x[2].cmd = CC2538_CMD_ERASE
                     /\ Len(x[2].data) = 8
                     /\ from_be_bytes(SubSeq(x[2].data, 1, 4)) = call.address
                     /\ from_be_bytes(SubSeq(x[2].data, 5, 8)) = call.count
                     /\ pc = "done"
                     /\ x[2].ack = "ack" <=> result.kind = "ok"

\* Erase(0x200800, 4097)
C13_Witness ==
    LET x == Exchanges(wire, 1, 0)
    IN  /\ EraseRangeRun /\ Finished("ok")
        /\ family = "CC2538"
        /\ Len(x) = 2
        /\ x[2].data = <<0, 32, 8, 0, 0, 0, 16, 1>>

\* ------------------------------------------------------------ C14

\* C14: Device::new writes the dummy packet [0x03, 0x00, 0x00] and reads an
\* ACK; when that read fails it writes 0x55 0x55 and reads an ACK again, and an
\* ACK there makes the construction succeed; when the first read succeeds the
\* Device is constructed and 0x55 0x55 is never written.
C14_Construction ==
    (entry = "device" /\ pc # "new")
      => /\ wire[1] = Ev("write", <<3, 0, 0>>, "ok")
         /\ wire[2].kind = "flush"
         /\ wire[3].kind = "read_ack"
         /\ wire[3].res # "err"
              => /\ device
                 /\ \A j \in 1..Len(wire) : wire[j].bytes # <<85, 85>>
         /\ (wire[3].res = "err" /\ pc # "auto_baud")
              => /\ wire[4] = Ev("write", <<85, 85>>, "ok")
                 /\ wire[5].kind = "read_ack"
                 /\ wire[5].res = "ack" => (device /\ result.iokind = "")

\* no reply to the dummy command, then an ACK to 0x55 0x55
C14_Witness ==
    /\ entry = "device" /\ device
    /\ Len(wire) >= 5
    /\ wire[3].res = "err"
    /\ wire[4].bytes = <<85, 85>>
    /\ wire[5].res = "ack"

\* ------------------------------------------------------------ C15

\* C15: when the reply to 0x55 0x55 is a NACK, or the ACK read after it fails,
\* Device::new fails with an error of kind NotConnected.
C15_NotConnected ==
    (/\ entry = "device" /\ Len(wire) >= 5
     /\ wire[4].bytes = <<85, 85>>
     /\ wire[5].res \in {"nack", "err"})
      => /\ Finished("err")
         /\ ~device
         /\ result.iokind = "NotConnected"

\* ------------------------------------------------------------ C16

\* C16: once Device::new has started communications init, the port's timeout
\* is 200 ms.
C16_TimeoutSet == (entry = "device" /\ pc # "new") => port_timeout = 200

\* ------------------------------------------------------------ C17

\* C17: a NACK to the packet of ping, download, get_status, get_chip_id, erase,
\* sector_erase, set_xosc or memory_read_32 makes the command return a failure.
C17_NackFails ==
    LET x == Exchanges(wire, 1, 0)
    IN  (/\ entry = "device" /\ pc = "done"
         /\ call.op \in {"ping", "download", "get_status", "get_chip_id", "erase",
                         "sector_erase", "set_xosc", "memory_read_32"}
         /\ Len(x) = 2 /\ x[2].ack = "nack")
          => result.kind = "err"

\* ------------------------------------------------------------ C18

\* a command called on a family that does not support it
Unsupported ==
    \/ call.op = "erase" /\ family # "CC2538"
    \/ call.op = "sector_erase" /\ family = "CC2538"
    \/ call.op = "set_xosc" /\ family # "CC2538"
    \/ call.op = "memory_read_32" /\ family = "CC2538"

\* C18: erase off CC2538, sector_erase on CC2538, set_xosc off CC2538 and
\* memory_read_32 on CC2538 panic, and nothing is written to or read from the
\* port by them.
C18_FamilyGating ==
    LET x == Exchanges(wire, 1, 0)
    IN  (entry = "device" /\ device /\ Unsupported)
          => /\ OnlyConstruction(x)
             /\ pc = "done" => result.kind = "panic"

C18_Witness ==
    /\ entry = "device" /\ device /\ Finished("panic")
    /\ call.op = "memory_read_32" /\ family = "CC2538"
    /\ call.len = REG32_SIZE /\ call.address = CC26XX_FLASH_O_FLASH_SIZE

\* ------------------------------------------------------------ C19

\* C19: every SectorErase packet on the wire carries an address A with
\* (A - flash_base) mod sector_size = 0; sector_erase with any other address
\* panics with nothing written, and erase_flash_range with such a start
\* address sends no SectorErase.
C19_SectorAligned ==
    LET x == Exchanges(wire, 1, 0)
    IN  entry = "device"
          => /\ \A i \in 2..Len(x) :
                  (IsSectorErase(x[i]) /\ call.op \in {"sector_erase", "erase_flash_range"})
                    => /\ supports_sector_erase(family)
                       /\ ~Misaligned(family, from_be_bytes(x[i].data))
             /\ (call.op = "sector_erase" /\ device /\ Misaligned(family, call.address))
                  => /\ OnlyConstruction(x)
                     /\ pc = "done" => result.kind = "panic"
             /\ (EraseRangeRun /\ supports_sector_erase(family)
                   /\ Misaligned(family, call.address))
                  => \A i \in 1..Len(x) : ~IsSectorErase(x[i])

\* sector_erase(100) on CC26X0
C19_Witness ==
    /\ entry = "device" /\ device /\ Finished("panic")
    /\ call.op = "sector_erase" /\ family = "CC26X0"
    /\ call.address = N(100)
    /\ result.msg = "invalid sector address"

\* ------------------------------------------------------------ C20

\* C20: on CC2538 read_flash_size reads 4 bytes at 0x400D3014 (one MemoryRead
\* of one 32-bit access) and returns 64K, 128K, 256K, 384K, 512K for the codes
\* 0..4 in bits [6:4] of the little-endian value, and 64K for any other code.
C20_FlashSizeCC2538 ==
    LET x == Exchanges(wire, 1, 0)
    IN  (/\ entry = "device" /\ device /\ pc = "done"
         /\ call.op = "read_flash_size" /\ family = "CC2538")
          => /\ Len(x) = 2
             /\ x[2].cmd = CMD_MEMORY_READ
             /\ x[2].data = <<64, 13, 48, 20, 1, 1>>
             /\ (x[2].ack = "ack" /\ Len(x[2].resp) = 4)
                  => /\ result.kind = "ok"
                     /\ result.value =
                          LET code == (x[2].resp[1] \div 16) % 8
                          IN  CASE code = 1 -> <<2, 0>>
                                [] code = 2 -> <<4, 0>>
                                [] code = 3 -> <<6, 0>>
                                [] code = 4 -> <<8, 0>>
                                [] OTHER -> <<1, 0>>

\* ------------------------------------------------------------ C21

\* a MemoryRead packet for `words` 32-bit accesses at addr
IsMemoryRead(e, addr, words) ==
    e.cmd = CMD_MEMORY_READ /\ e.data = to_be_bytes(addr) \o <<1, words>>

\* the exchange got its ACK and a response of n bytes
Answered(e, n) == e.ack = "ack" /\ e.status # -1 /\ Len(e.resp) = n

\* C21: on CC26X0/CC26X2 read_flash_size sends one MemoryRead of one word at
\* 0x4003002C and returns the first response byte (the low 8 bits of the
\* little-endian word) times the family's sector size, whatever the other
\* three bytes are.
C21_FlashSizeCC26 ==
    LET x == Exchanges(wire, 1, 0)
    IN  (/\ entry = "device" /\ device /\ pc = "done"
         /\ call.op = "read_flash_size" /\ IsCC26(family))
          => /\ Len(x) = 2
             /\ IsMemoryRead(x[2], <<16387, 44>>, 1)
             /\ result.kind = "ok" <=> Answered(x[2], 4)
             /\ Answered(x[2], 4) => result.value = N(x[2].resp[1] * sector_size(family))

\* 0x14 0x00 0x00 0x00 on CC26X2: 163840
C21_Witness ==
    LET x == Exchanges(wire, 1, 0)
    IN  /\ entry = "device" /\ Finished("ok")
        /\ call.op = "read_flash_size" /\ family = "CC26X2"
        /\ x[2].resp = <<20, 0, 0, 0>>
        /\ result.value = <<2, 32768>>

\* ------------------------------------------------------------ C22

\* C22: read_ieee_address reads the primary address with one MemoryRead of two
\* words at 0x00280028 (CC2538) or 0x000002F0 (CC26xx), then the secondary one
\* at 0x0027FFCC (CC2538) or read_flash_size - 88 + 0x20 (CC26xx), the
\* flash-size read coming first on CC26xx, and returns the two.
C22_IeeeAddress ==
    LET x == Exchanges(wire, 1, 0)
    IN  (entry = "device" /\ device /\ pc = "done" /\ call.op = "read_ieee_address")
          => IF family = "CC2538"
             THEN /\ Len(x) >= 2
                  /\ IsMemoryRead(x[2], <<40, 40>>, 2)
                  /\ Len(x) >= 3 => IsMemoryRead(x[3], <<39, 65484>>, 2)
                  /\ result.kind = "ok" => result.bytes = <<x[2].resp, x[3].resp>>
             ELSE /\ Len(x) >= 2
                  /\ IsMemoryRead(x[2], <<16387, 44>>, 1)
                  /\ Len(x) >= 3 => IsMemoryRead(x[3], <<0, 752>>, 2)
                  /\ Len(x) >= 4
                       => LET size == N(x[2].resp[1] * sector_size(family))
                          IN  /\ Ge(size, N(88))
                              /\ IsMemoryRead(x[4], Add(Sub(size, N(88)), N(32)), 2)
                  /\ result.kind = "ok" => result.bytes = <<x[3].resp, x[4].resp>>

\* ------------------------------------------------------------ C23

\* C23: a MemoryRead packet carries the address big-endian, access type 1 and
\* len(buf)/4, and is sent only for a 4-byte aligned address and a buffer of a
\* multiple of 4 bytes and at most 63 words; otherwise memory_read_32 panics
\* with nothing written.
C23_MemoryRead ==
    LET x == Exchanges(wire, 1, 0)
        fine == /\ call.address[2] % 4 = 0
                /\ call.len % 4 = 0
                /\ call.len \div 4 <= 63
    IN  (entry = "device" /\ device /\ call.op = "memory_read_32")
          => /\ \A i \in 2..Len(x) :
                  /\ i = 2 /\ fine
                  /\ x[i].cmd = CMD_MEMORY_READ
                  /\ Len(x[i].data) = 6
                  /\ from_be_bytes(SubSeq(x[i].data, 1, 4)) = call.address
                  /\ x[i].data[5] = 1
                  /\ x[i].data[6] * 4 = call.len
             /\ (pc = "done" /\ ~fine) => (result.kind = "panic" /\ OnlyConstruction(x))
             /\ (pc = "done" /\ fine /\ IsCC26(family)) => Len(x) = 2

\* 63 words at 0x4003002C
C23_Witness ==
    LET x == Exchanges(wire, 1, 0)
    IN  /\ entry = "device" /\ pc = "done" /\ call.op = "memory_read_32"
        /\ call.len = 252
        /\ Len(x) = 2
        /\ x[2].data = <<64, 3, 0, 44, 1, 63>>

\* ------------------------------------------------------------ C26

\* C26: every command packet on the wire is followed by its flush and then by
\* an ACK read, and the auto-baud bytes by an ACK read, before anything else is
\* written: no packet is written while the previous one's ACK wait has not
\* ended.
C26_HalfDuplex ==
    entry = "device"
      => \A j \in 1..Len(wire) :
           /\ IsCommand(wire[j])
                => /\ j + 2 <= Len(wire)
                   /\ wire[j + 1].kind = "flush"
                   /\ wire[j + 2].kind = "read_ack"
           /\ wire[j].bytes = <<85, 85>>
                => /\ j + 1 <= Len(wire)
                   /\ wire[j + 1].kind = "read_ack"

\* a Device synchronised by auto-baud has written two transfers
C26_Witness ==
    /\ entry = "device" /\ Finished("ok")
    /\ call.op = "write_flash_range"
    /\ wire[4].bytes = <<85, 85>>
    /\ Len(Exchanges(wire, 1, 0)) > 6

\* ------------------------------------------------------------ C24

\* the sum of data[lo..hi] over the integers
RECURSIVE SumBytes(_, _, _)
SumBytes(data, lo, hi) ==
    IF lo > hi THEN 0
    ELSE IF lo = hi THEN data[lo]
    ELSE SumBytes(data, lo, (lo + hi) \div 2) + SumBytes(data, ((lo + hi) \div 2) + 1, hi)

\* C24: for a payload of 0 to 252 bytes write_cmd makes one write of
\* [L, K, cmd, data...] with L = 3 + len(data) and K = (cmd + sum of data) mod
\* 256, then one flush; cmd and data are read back from the packet by its
\* length byte. ping writes [0x03, 0x20, 0x20] and returns true on an ACK.
C24_Packet ==
    /\ (entry = "framer" /\ pc = "done" /\ call.op = "write_cmd"
          /\ Len(call.data) <= MAX_BYTES_PER_TRANSFER)
         => /\ result.kind = "ok"
            /\ Len(wire) = 2
            /\ wire[1].kind = "write"
            /\ wire[1].bytes = <<3 + Len(call.data),
                                 (call.cmd + SumBytes(call.data, 1, Len(call.data))) % 256,
                                 call.cmd>> \o call.data
            /\ wire[2].kind = "flush"
            /\ wire[1].bytes[1] = Len(wire[1].bytes)
            /\ wire[1].bytes[3] = call.cmd
            /\ SubSeq(wire[1].bytes, 4, wire[1].bytes[1]) = call.data
    /\ (entry = "framer" /\ pc = "done" /\ call.op = "ping")
         => /\ wire[1] = Ev("write", <<3, 32, 32>>, "ok")
            /\ wire[2].kind = "flush"
            /\ wire[3].res = "ack" => (result.kind = "ok" /\ result.flag)

\* the longest packet: 252 bytes of 0xFF after the header
C24_Witness ==
    /\ entry = "framer" /\ Finished("ok") /\ call.op = "write_cmd"
    /\ Len(call.data) = MAX_BYTES_PER_TRANSFER /\ call.data[1] = 255 /\ call.data[252] = 255
    /\ call.cmd = 36
    /\ wire[1].bytes[1] = 255
    /\ wire[1].bytes[2] = 40

\* ------------------------------------------------------------ C25

\* C25: command_checksum(cmd, data) is (cmd + the sum of the bytes of data) mod
\* 256 and never fails; for 0xCA and [0xDE, 0xAD, 0xBE, 0xEF] it is 0x02.
C25_Checksum ==
    (entry = "framer" /\ pc = "done" /\ call.op = "command_checksum")
      => /\ result.kind = "ok"
         /\ result.value = N((call.cmd + SumBytes(call.data, 1, Len(call.data))) % 256)
         /\ (call.cmd = 202 /\ call.data = <<222, 173, 190, 239>>) => result.value = N(2)

C25_Witness ==
    /\ entry = "framer" /\ Finished("ok") /\ call.op = "command_checksum"
    /\ call.cmd = 202 /\ call.data = <<222, 173, 190, 239>>
    /\ result.value = <<0, 2>>

\* ------------------------------------------------------------ C27

\* the level of the reset line: RTS, or DTR when inverted
ResetLine == IF call.inverted THEN dtr_state ELSE rts_state

\* the level of the bootloader-select line: DTR, or RTS when inverted
SelectLine == IF call.inverted THEN rts_state ELSE dtr_state

\* C27: when invoke_bootloader returns Ok the reset line is false and the
\* bootloader-select line equals bootloader_active_high; every write to the
\* reset line, whether it changes the line or not, happens with the select
\* line at the opposite level before and after it.
C27_Lines ==
    [][entry = "invoke_bootloader"
         => /\ Finished("ok")' =>
                 (~ResetLine' /\ SelectLine' = call.bootloader_active_high)
            /\ (ResetLine' # ResetLine \/ (step \in 1..3 /\ step' = step + 1)) =>
                 /\ SelectLine = ~call.bootloader_active_high
                 /\ SelectLine' = ~call.bootloader_active_high]_vars

\* inverted and active low: both lines end low
C27_Witness ==
    /\ entry = "invoke_bootloader" /\ Finished("ok")
    /\ call.inverted /\ ~call.bootloader_active_high
    /\ step = 5
    /\ ~dtr_state /\ ~rts_state

\* ------------------------------------------------------------ C28

\* the two-byte sliding window after the first k reads, started at (0xFF, 0xFF)
RECURSIVE WindowAfter(_, _)
WindowAfter(w, k) ==
    IF k = 0 THEN <<255, 255>>
    ELSE LET p == WindowAfter(w, k - 1)
         IN  IF w[k].res = "ok" THEN <<p[2], w[k].bytes[1]>> ELSE p

IsPair(win) == win[1] = 0 /\ win[2] \in {ACK, NACK}

\* C28: read_ack returns exactly when the two-byte window over the bytes
\* received first shows 0x00 followed by 0xCC or 0x33: true for 0xCC, false for
\* 0x33, whatever came before; the last read is the one that brought the second
\* byte of the pair.
C28_SlidingWindow ==
    entry = "read_ack" =>
      LET win == WindowAfter(wire, Len(wire))
      IN  /\ IsPair(win) <=> Finished("ok")
          /\ Finished("ok") =>
               /\ result.flag = (win[2] = ACK)
               /\ ~result.flag = (win[2] = NACK)
               /\ wire[Len(wire)].res = "ok"
               /\ \A k \in 0..(Len(wire) - 1) : ~IsPair(WindowAfter(wire, k))
          /\ <<ack[Len(ack) - 1], ack[Len(ack)]>> = win

\* a stray 0xCC and padding before the pair
C28_Witness ==
    /\ entry = "read_ack" /\ Finished("ok") /\ result.flag
    /\ Len(wire) = 4
    /\ wire[1].bytes = <<ACK>> /\ wire[2].bytes = <<255>>
    /\ wire[3].bytes = <<0>> /\ wire[4].bytes = <<ACK>>

\* ------------------------------------------------------------ C29

\* the bytes received by the first k reads
RECURSIVE ReceivedBy(_, _)
ReceivedBy(w, k) == IF k = 0 THEN <<>> ELSE ReceivedBy(w, k - 1) \o w[k].bytes

\* C29: a read that times out adds nothing to the window and, before the
\* deadline, reading goes on; a read of zero bytes ends read_ack with
\* "unexpected EOF"; any other transport error is returned as it is.
C29_ReadOutcomes ==
    (entry = "read_ack" /\ Len(wire) > 0) =>
      LET last == wire[Len(wire)]
      IN  /\ ack = <<255, 255>> \o ReceivedBy(wire, Len(wire))
          /\ \A k \in 1..(Len(wire) - 1) : wire[k].res \in {"ok", "timeout"}
          /\ (last.res = "timeout" /\ ~expired) => pc = "read_ack"
          /\ last.res = "eof" =>
               (Finished("err") /\ result.msg = "unexpected EOF" /\ result.iokind = "Other")
          /\ last.res = "err" =>
               (Finished("err") /\ result.msg = "io" /\ result.iokind = "Transport")

\* a timeout between the 0x00 and the 0xCC
C29_Witness ==
    /\ entry = "read_ack" /\ Finished("ok") /\ result.flag
    /\ Len(wire) = 3
    /\ wire[1].bytes = <<0>> /\ wire[2].res = "timeout" /\ wire[3].bytes = <<ACK>>

\* ------------------------------------------------------------ C30

\* C30: read_ack goes on reading only while the deadline has not passed; a read
\* that returns with a byte or a timeout after the deadline ends it, with
\* ACK/NACK if that read completed the pair and with "ACK bytes not found,
\* timed out" otherwise; that failure is given only after the deadline.
C30_Deadline ==
    (entry = "read_ack" /\ Len(wire) > 0) =>
      LET last == wire[Len(wire)]
          win == <<ack[Len(ack) - 1], ack[Len(ack)]>>
      IN  /\ pc = "read_ack" => (~expired /\ waited < timeout_ms)
          /\ (expired /\ last.res \in {"ok", "timeout"}) =>
               IF IsPair(win)
               THEN Finished("ok") /\ result.flag = (win[2] = ACK)
               ELSE /\ Finished("err")
                    /\ result.msg = "ACK bytes not found, timed out"
                    /\ result.iokind = "Other"
          /\ (pc = "done" /\ result.msg = "ACK bytes not found, timed out") =>
               (expired /\ ~IsPair(win))

\* the NACK pair completed by the read during which the deadline passed
C30_Witness ==
    /\ entry = "read_ack" /\ Finished("ok") /\ ~result.flag
    /\ expired
    /\ Len(wire) = 5
    /\ \A k \in 1..3 : wire[k].res = "timeout"
    /\ wire[4].bytes = <<0>> /\ wire[5].bytes = <<NACK>>

\* ------------------------------------------------------------ C31

\* the commands that read a response, and their opcodes
ResponseOps == {"get_status", "get_chip_id", "memory_read_32"}

OpcodeOf(op) ==
    CASE op = "get_status" -> CMD_GET_STATUS
      [] op = "get_chip_id" -> CMD_GET_CHIP_ID
      [] OTHER -> CMD_MEMORY_READ

\* what the transport saw from the last command packet on
LastCall(w) ==
    IF \E j \in 1..Len(w) : IsCommand(w[j])
    THEN LET j == CHOOSE i \in 1..Len(w) :
                    IsCommand(w[i]) /\ \A k \in (i + 1)..Len(w) : ~IsCommand(w[k])
         IN  SubSeq(w, j, Len(w))
    ELSE <<>>

\* a finished direct call of op that has sent its command packet
Sent(op, e) ==
    /\ entry = "device" /\ pc = "done" /\ call.op = op
    /\ Len(e) >= 3 /\ e[1].bytes[3] = OpcodeOf(op)

\* C31: an ACKed get_status, get_chip_id or memory_read_32 has written its
\* packet, flushed, read the ACK and read the response header; it returns Ok
\* exactly when it then read the payload, wrote [0x00, 0xCC] and flushed, in
\* that order, and gives the payload back (get_status its one byte, get_chip_id
\* its four bytes big-endian); when it fails nothing is written after the ACK
\* read.
C31_ResponseOrder ==
    LET e == LastCall(wire)
    IN  \A op \in ResponseOps :
          (Sent(op, e) /\ e[3].res = "ack")
            => /\ e[1].kind = "write" /\ e[2].kind = "flush" /\ e[3].kind = "read_ack"
               /\ Len(e) >= 4 /\ e[4].kind = "read_header"
               /\ result.kind = "ok" <=>
                    /\ Len(e) = 7
                    /\ e[5].kind = "read_response" /\ e[5].res = "ok"
                    /\ e[6] = Ev("write", <<0, 204>>, "ok")
                    /\ e[7].kind = "flush"
               /\ result.kind = "ok" =>
                    CASE op = "get_status" -> result.status = e[5].bytes[1]
                      [] op = "get_chip_id" ->
                           result.value = <<(e[5].bytes[1] * 256) + e[5].bytes[2],
                                            (e[5].bytes[3] * 256) + e[5].bytes[4]>>
                      [] OTHER -> result.bytes = e[5].bytes
               /\ result.kind # "ok" =>
                    /\ Len(e) <= 5
                    /\ \A k \in 4..Len(e) : e[k].kind \in {"read_header", "read_response"}

\* get_chip_id has returned the four bytes 0x14 0x01 0x02 0x03 as 0x14010203
C31_Witness ==
    /\ Sent("get_chip_id", LastCall(wire))
    /\ result.kind = "ok"
    /\ result.value = <<5121, 515>>
    /\ Len(LastCall(wire)) = 7

\* ------------------------------------------------------------ C32

\* C32: for a header [total_len, cksum] whose payload length total_len - 2 is
\* not the length of the caller's buffer, total_len of 0 and 1 included,
\* read_response returns a failure without reading any payload byte; when the
\* lengths are equal it reads exactly that many payload bytes.
C32_LengthMismatch ==
    (entry = "read_response" /\ pc = "done" /\ wire[1].res = "ok")
      => IF wire[1].bytes[1] - 2 # call.len
         THEN result.kind = "err" /\ Len(wire) = 1
         ELSE /\ Len(wire) = 2 /\ wire[2].kind = "read_response"
              /\ result.kind = "ok" => Len(wire[2].bytes) = call.len

\* ------------------------------------------------------------ C33

\* C33: Device::new has returned a Device only if the dummy command or the
\* auto-baud bytes 0x55 0x55 were answered with an ACK.
C33_AckBeforeDevice ==
    (entry = "device" /\ device)
      => \/ wire[3].kind = "read_ack" /\ wire[3].res = "ack"
         \/ /\ Len(wire) >= 5
            /\ wire[4] = Ev("write", <<85, 85>>, "ok")
            /\ wire[5].kind = "read_ack" /\ wire[5].res = "ack"

\* ------------------------------------------------------------ C40

\* C40: whatever the Device writes (a command packet, the host ACK, the
\* auto-baud bytes 0x55 0x55) is flushed before anything is read.
C40_FlushBeforeRead ==
    entry = "device" =>
      \A k \in 1..Len(wire) :
        (wire[k].kind = "write" /\ k < Len(wire)) => wire[k + 1].kind = "flush"

\* ------------------------------------------------------------ C39

\* the message of each command's not-acknowledged failure
NackMessage(op) ==
    CASE op = "get_status" -> "COMMAND_GET_STATUS not acknowledged"
      [] op = "get_chip_id" -> "bootloader didn't acknowledge the command"
      [] OTHER -> "failed to read memory"

\* C39: a get_status, get_chip_id or memory_read_32 whose command packet is
\* answered with NACK returns its not-acknowledged failure, and the transport
\* sees nothing after the ACK read: no header read, no payload read, no host
\* ACK or NACK.
C39_NackStops ==
    LET e == LastCall(wire)
    IN  \A op \in ResponseOps :
          (Sent(op, e) /\ e[3].res = "nack")
            => /\ Len(e) = 3
               /\ e[3].kind = "read_ack"
               /\ result.kind = "err"
               /\ result.msg = NackMessage(op)

\* memory_read_32 of two words was not acknowledged
C39_Witness ==
    /\ Sent("memory_read_32", LastCall(wire))
    /\ LastCall(wire)[3].res = "nack"
    /\ call.len = 8
    /\ result.msg = "failed to read memory"

\* ------------------------------------------------------------ C34

\* the number of whole sectors that n bytes reach into
SectorsUp(f, n) ==
    IF ModS(n, sector_size(f)) = 0 THEN DivS(n, sector_size(f))
    ELSE Add(DivS(n, sector_size(f)), N(1))

\* C34: after a pre-erase, every transfer with expect_ack = true that flash()
\* hands to write_flash_range writes only inside [start_address, start_address +
\* the erased byte count rounded up to whole sectors), on every family.
C34_WrittenIsErased ==
    (entry = "flash" /\ write_erase /\ wfr_called)
      => \A k \in 1..Len(transfers) :
           (transfers[k].expect_ack /\ Len(transfers[k].data) > 0)
             => /\ efr_call.called
                /\ Ge(transfers[k].start_address, efr_call.start_address)
                /\ Ge(SectorsUp(family, efr_call.byte_count),
                      SectorsUp(family, Sub(Add(transfers[k].start_address,
                                                N(Len(transfers[k].data))),
                                            efr_call.start_address)))

\* ------------------------------------------------------------ C35

\* Erase (SectorErase has the same opcode), Download and SendData
Destructive == {CC2538_CMD_ERASE, CC26X0_CMD_SECTOR_ERASE, CMD_DOWNLOAD, CMD_SEND_DATA}

\* C35: when flash() has returned one of its three bounds errors, no Erase,
\* SectorErase, Download or SendData was sent, with and without pre-erase.
C35_NoCommandOnReject ==
    (/\ entry = "flash" /\ Finished("err")
     /\ result.msg \in {"Binary size is too large", "Start address out of range",
                        "Binary file is too large for flash"})
      => \A k \in 1..Len(wire) : IsCommand(wire[k]) => wire[k].bytes[3] \notin Destructive

\* ------------------------------------------------------------ C36

\* C36: on CC26X0/CC26X2, when flash() hands its transfers to write_flash_range
\* with overwrites_ccfg true, no transfer with expect_ack = true writes an
\* address of [flash_size - 88, flash_size); the transfer with expect_ack =
\* false is the last 88 bytes of the binary.
C36_CcfgUnacked ==
    (entry = "flash" /\ wfr_called /\ IsCC26(family) /\ overwrites_ccfg)
      => /\ \A k \in 1..Len(transfers) :
              (transfers[k].expect_ack /\ Len(transfers[k].data) > 0)
                => \/ ~Gt(Add(transfers[k].start_address, N(Len(transfers[k].data))),
                          Sub(flash_size, N(CCFG_SIZE)))
                   \/ Ge(transfers[k].start_address, flash_size)
         /\ Len(transfers) = 2
         /\ ~transfers[2].expect_ack
         /\ Len(transfers[2].data) = CCFG_SIZE

\* a 500-byte binary that ends with the flash of a CC26X0
C36_Witness ==
    /\ entry = "flash" /\ wfr_called /\ family = "CC26X0" /\ overwrites_ccfg
    /\ Len(binary) = 500
    /\ Add(address, N(500)) = flash_size
    /\ Len(transfers[1].data) = 412
    /\ Add(transfers[1].start_address, N(412)) = Sub(flash_size, N(CCFG_SIZE))

\* ------------------------------------------------------------ C37

\* the input passes the three bounds checks of flash()
PassesChecks ==
    /\ ~Gt(N(Len(binary)), flash_size)
    /\ ~Lt(address, flash_base(family))
    /\ ~Gt(ExactEnd, Add(flash_base(family), flash_size))

\* C37: on CC26X0/CC26X2 with force set, an input that passes the checks with
\* overwrites_ccfg true has len(binary) >= 88: neither the subtraction nor the
\* slicing of the binary panics, the pre-erase byte count is len(binary) - 88, and the two transfers have
\* len(binary) - 88 and 88 bytes and make up the binary.
C37_SplitDefined ==
    (entry = "flash" /\ IsCC26(family) /\ force /\ PassesChecks /\ overwrites_ccfg)
      => /\ Len(binary) >= CCFG_SIZE
         /\ result.msg \notin {"attempt to subtract with overflow",
                                "slice of the binary out of range"}
         /\ efr_call.called => efr_call.byte_count = N(Len(binary) - CCFG_SIZE)
         /\ wfr_called =>
              /\ Len(transfers[1].data) = Len(binary) - CCFG_SIZE
              /\ Len(transfers[2].data) = CCFG_SIZE
              /\ transfers[1].data \o transfers[2].data = binary

\* ------------------------------------------------------------ C38

\* the place in x of the last Download, 0 if there is none
LastDownload(x) ==
    IF \E i \in 1..Len(x) : x[i].cmd = CMD_DOWNLOAD
    THEN CHOOSE i \in 1..Len(x) :
           x[i].cmd = CMD_DOWNLOAD /\ \A j \in (i + 1)..Len(x) : x[j].cmd # CMD_DOWNLOAD
    ELSE 0

\* the bytes of the SendData packets after place i that the device ACKed
RECURSIVE AckedBytes(_, _)
AckedBytes(x, i) ==
    IF i >= Len(x) THEN 0
    ELSE (IF x[i + 1].cmd = CMD_SEND_DATA /\ x[i + 1].ack = "ack"
          THEN Len(x[i + 1].data) ELSE 0) + AckedBytes(x, i + 1)

\* the write cursor of a device that takes it from the address of a Download
\* and moves it by the length of every SendData it ACKs
Cursor(x) ==
    Wrap32(Add(from_be_bytes(SubSeq(x[LastDownload(x)].data, 1, 4)),
               N(AckedBytes(x, LastDownload(x)))))

\* C38: whenever write_flash_range sends a chunk, the address it attributes to
\* it, start_address + data_offset, is the device's write cursor at that
\* moment, for transfers with expect_ack true and false alike.
C38_CursorAgrees ==
    [][(pc = "wfr_chunk" /\ Len(wire') > Len(wire))
         => Wrap32(Add(transfers[txfer_index + 1].start_address, N(data_offset)))
              = Cursor(Exchanges(wire, 1, 0))]_vars

====
